---- MODULE Spec2Model ----
(***************************************************************************)
(* TrueSim: cycle-level simulator of a neuromorphic routing mesh.          *)
(* Model of src/core_simulator.py: Packet, Buffer, Core, Line, simulate,   *)
(* construct_mesh and construct_3D_mesh.                                   *)
(***************************************************************************)
EXTENDS Integers, Sequences, FiniteSets, TLC

\* ------------------------------------------------------------------------
\* Bounds of the model
\* ------------------------------------------------------------------------
\* width of the mesh (round(n_cores ** (1/dim)))
Width == 2
\* number of packets a workload creates on the 2D mesh
MaxPackets == 2
\* number of packets a workload creates on the 3D mesh
MaxPackets3D == 1
\* largest absolute displacement component a workload draws
MaxDisp == 1
\* the workload generator creates packets in ticks 0 .. InjectTicks - 1
InjectTicks == 2
\* tick budget of simulate (timesteps)
Timesteps == 55

\* ------------------------------------------------------------------------
\* Program constants
\* ------------------------------------------------------------------------
N_CHANNELS == 1
\* Core.default_routing_delay
CoreDelay == 2
\* Line.default_routing_delay
LineDelay == 1
\* routing_delay set by Core.advance
ArbiterDelay == 6

VARIABLES
    topology_type,      \* "mesh" | "3Dmesh"
    packets,            \* the global packet list: name -> Packet fields
    wait_buffer,        \* core -> sequence of packet names
    send_buffer,        \* core -> sequence of packet names
    packet_out_buffer,  \* core -> direction -> Buffer.out
    merges,             \* core -> direction -> forward_*_merge
    channels,           \* line -> Line.channels
    delays,             \* Packet.delays
    console,            \* names printed by "Packet <name> was lost"
    t,                  \* loop variable of simulate
    pc,                 \* position inside the body of the loop
    to_visit,           \* list built by the wire step, routed in list order
    to_route,           \* cores of to_visit whose route is still to run, in list order
    to_send,            \* cores of to_visit whose send_out is still to run
    workload,           \* "toy" | "random"
    width,              \* width of the mesh handed to simulate
    timesteps,          \* tick budget handed to simulate
    fw,                 \* the ForwardWest router of routing_simulator.py and its simulate loop
    call,               \* a method called on its own: its arguments and what it returned
    hist                \* per packet history of the run (observations, never read by the program)

vars == <<topology_type, packets, wait_buffer, send_buffer, packet_out_buffer,
          merges, channels, delays, console, t, pc, to_visit, to_route, to_send,
          workload, width, timesteps, fw, call, hist>>

\* ------------------------------------------------------------------------
\* Topology: construct_mesh / construct_3D_mesh
\* ------------------------------------------------------------------------
None == 0

\* fw in a run of core_simulator.py, which has no ForwardWest router
NoRouter == [pc |-> "absent"]

\* call in a run of simulate, where no method is called on its own
NoCall == [op |-> "none"]

Dirs == 0 .. 5
\* index of a direction in Core.lines_in / Core.lines_out
NORTH == 0
EAST == 1
WEST == 2
SOUTH == 3
UP == 4
DOWN == 5

NCores(tt) == IF tt = "mesh" THEN width * width ELSE width * width * width

\* cores are named in creation order (Core.id)
Cores(tt) == 1 .. NCores(tt)

\* core_array[x][y] / mesh[x][y][z]
CoreAt(x, y, z) == 1 + z * width * width + x * width + y

CX(c) == ((c - 1) % (width * width)) \div width
CY(c) == (c - 1) % width
CZ(c) == (c - 1) \div (width * width)

\* the Line object created for cell c, pair d (EAST, SOUTH or DOWN),
\* k = 0 for element [0] of the pair, 1 for element [1]
LineOf(c, d, k) == c * 12 + d * 2 + k

LineCell(l) == l \div 12
LineDir(l) == (l % 12) \div 2
LineSlot(l) == l % 2

\* the pairs [Line(), Line()] allocated in the first loop nest
south_pair(tt, c) ==
    IF CX(c) = width - 1 THEN <<None, None>>
    ELSE <<LineOf(c, SOUTH, 0), LineOf(c, SOUTH, 1)>>

east_pair(tt, c) ==
    IF CY(c) < width - 1 THEN <<LineOf(c, EAST, 0), LineOf(c, EAST, 1)>>
    ELSE <<None, None>>

down_pair(tt, c) ==
    IF tt = "3Dmesh" /\ CZ(c) < width - 1
    THEN <<LineOf(c, DOWN, 0), LineOf(c, DOWN, 1)>>
    ELSE <<None, None>>

\* variant: north = [lines_in[3], lines_out[3]] of the core above, the pair the other way round
lines_in_north_swapped(tt, c) ==
    [d \in Dirs |->
        CASE d = NORTH -> IF CX(c) = 0 THEN None
                          ELSE south_pair(tt, CoreAt(CX(c) - 1, CY(c), CZ(c)))[1]
          [] d = EAST  -> east_pair(tt, c)[1]
          [] d = WEST  -> IF CY(c) = 0 THEN None
                          ELSE east_pair(tt, CoreAt(CX(c), CY(c) - 1, CZ(c)))[2]
          [] d = SOUTH -> south_pair(tt, c)[1]
          [] d = UP    -> IF tt = "mesh" \/ CZ(c) = 0 THEN None
                          ELSE down_pair(tt, CoreAt(CX(c), CY(c), CZ(c) - 1))[2]
          [] d = DOWN  -> down_pair(tt, c)[1]]

\* Core(n1, n2, e1, e2, w1, w2, s1, s2, u1, u2, d1, d2): lines_in = [n1, e1, w1, s1, u1, d1]
lines_in(tt, c) ==
    [d \in Dirs |->
        CASE d = NORTH -> IF CX(c) = 0 THEN None
                          ELSE south_pair(tt, CoreAt(CX(c) - 1, CY(c), CZ(c)))[2]
          [] d = EAST  -> east_pair(tt, c)[1]
          [] d = WEST  -> IF CY(c) = 0 THEN None
                          ELSE east_pair(tt, CoreAt(CX(c), CY(c) - 1, CZ(c)))[2]
          [] d = SOUTH -> south_pair(tt, c)[1]
          [] d = UP    -> IF tt = "mesh" \/ CZ(c) = 0 THEN None
                          ELSE down_pair(tt, CoreAt(CX(c), CY(c), CZ(c) - 1))[2]
          [] d = DOWN  -> down_pair(tt, c)[1]]

\* lines_out = [n2, e2, w2, s2, u2, d2]
lines_out(tt, c) ==
    [d \in Dirs |->
        CASE d = NORTH -> IF CX(c) = 0 THEN None
                          ELSE south_pair(tt, CoreAt(CX(c) - 1, CY(c), CZ(c)))[1]
          [] d = EAST  -> east_pair(tt, c)[2]
          [] d = WEST  -> IF CY(c) = 0 THEN None
                          ELSE east_pair(tt, CoreAt(CX(c), CY(c) - 1, CZ(c)))[1]
          [] d = SOUTH -> south_pair(tt, c)[2]
          [] d = UP    -> IF tt = "mesh" \/ CZ(c) = 0 THEN None
                          ELSE down_pair(tt, CoreAt(CX(c), CY(c), CZ(c) - 1))[1]
          [] d = DOWN  -> down_pair(tt, c)[2]]

Lines(tt) ==
    {l \in UNION {{lines_in(tt, c)[d], lines_out(tt, c)[d]} : c \in Cores(tt), d \in Dirs} :
        l # None}

\* the cells whose Line.connect calls the second loop nest makes
connects_plane(tt, c) ==
    IF tt = "mesh"
    THEN CX(c) < width - 1 /\ CY(c) < width - 1
    ELSE CZ(c) < width - 1 /\ CX(c) < width - 1 /\ CY(c) < width - 1

connects_down(tt, c) == tt = "3Dmesh" /\ CZ(c) < width - 1

\* <<component_in, component_out>> of a line after construction
\* (Line.__init__ leaves both None, Line.connect sets them)
terminals(tt, l) ==
    LET c == LineCell(l)
        d == LineDir(l)
        nb == CASE d = EAST  -> CoreAt(CX(c), CY(c) + 1, CZ(c))
                [] d = SOUTH -> CoreAt(CX(c) + 1, CY(c), CZ(c))
                [] OTHER     -> CoreAt(CX(c), CY(c), CZ(c) + 1)
        connected == IF d = DOWN THEN connects_down(tt, c) ELSE connects_plane(tt, c)
    IN  IF ~connected THEN <<None, None>>
        ELSE IF LineSlot(l) = 1 THEN <<c, nb>>   \* lines_out[d].connect(cell, neighbour)
        ELSE <<nb, c>>                          \* lines_in[d].connect(neighbour, cell)

component_in(tt, l) == terminals(tt, l)[1]
component_out(tt, l) == terminals(tt, l)[2]

\* the side of a neighbour that faces the core: north <-> south, east <-> west, up <-> down
Opposite(d) ==
    CASE d = NORTH -> SOUTH
      [] d = SOUTH -> NORTH
      [] d = EAST  -> WEST
      [] d = WEST  -> EAST
      [] d = UP    -> DOWN
      [] d = DOWN  -> UP

\* grid position <<x, y, z>> next to core c in direction d: north is row x - 1,
\* east is column y + 1, up is layer z - 1
Beside(c, d) ==
    CASE d = NORTH -> <<CX(c) - 1, CY(c), CZ(c)>>
      [] d = SOUTH -> <<CX(c) + 1, CY(c), CZ(c)>>
      [] d = EAST  -> <<CX(c), CY(c) + 1, CZ(c)>>
      [] d = WEST  -> <<CX(c), CY(c) - 1, CZ(c)>>
      [] d = UP    -> <<CX(c), CY(c), CZ(c) - 1>>
      [] d = DOWN  -> <<CX(c), CY(c), CZ(c) + 1>>

\* is <<x, y, z>> a cell of the grid
InGrid(tt, pos) ==
    /\ pos[1] \in 0 .. width - 1
    /\ pos[2] \in 0 .. width - 1
    /\ pos[3] \in 0 .. (IF tt = "mesh" THEN 0 ELSE width - 1)

HasNeighbour(tt, c, d) == InGrid(tt, Beside(c, d))

Neighbour(c, d) == CoreAt(Beside(c, d)[1], Beside(c, d)[2], Beside(c, d)[3])


\* ------------------------------------------------------------------------
\* Packet
\* ------------------------------------------------------------------------
NoParent == [kind |-> "none", id |-> None]
CoreParent(c) == [kind |-> "core", id |-> c]
LineParent(l) == [kind |-> "line", id |-> l]

Tags == {"eastbound", "westbound", "northbound", "southbound", "upbound", "downbound",
         "east-exit", "west-exit", "north-exit", "south-exit", "up-exit", "down-exit",
         "north", "south", "up", "down", "self-exit"}

\* Python's `sub in tag` over the tags the program uses
TagsContaining(sub) ==
    CASE sub = "exit"  -> {"east-exit", "west-exit", "north-exit", "south-exit",
                           "up-exit", "down-exit", "self-exit"}
      [] sub = "south" -> {"southbound", "south-exit", "south"}
      [] sub = "north" -> {"northbound", "north-exit", "north"}
      [] sub = "up"    -> {"upbound", "up-exit", "up"}
      [] sub = "down"  -> {"downbound", "down-exit", "down"}

Contains(tag, sub) == tag \in TagsContaining(sub)

determine_directionality(dx, dy, dz) ==
    LET d1 == IF dz > 0 THEN "upbound" ELSE "downbound"
        d2 == IF dy < 0 THEN "southbound" ELSE d1
        d3 == IF dy > 0 THEN "northbound" ELSE d2
        d4 == IF dx > 0 THEN "eastbound" ELSE d3
    IN  IF dx < 0 THEN "westbound" ELSE d4

\* Packet.__init__
Packet(parent, dx, dy, dz) ==
    [dx |-> dx, dy |-> dy, dz |-> dz, routing_delay |-> 0,
     directionality |-> determine_directionality(dx, dy, dz),
     parent |-> CoreParent(parent)]

\* ------------------------------------------------------------------------
\* Buffer (one staging slot of packet_out_buffer)
\* ------------------------------------------------------------------------
EmptySlots == [x \in 1 .. N_CHANNELS |-> None]

Buffer_is_clear(out) == \E x \in 1 .. N_CHANNELS : out[x] = None

Buffer_add(out, p) ==
    IF Buffer_is_clear(out)
    THEN LET x == CHOOSE i \in 1 .. N_CHANNELS :
                     out[i] = None /\ \A j \in 1 .. i - 1 : out[j] # None
         IN  [out EXCEPT ![x] = p]
    ELSE out

Buffer_clear(out) == EmptySlots

\* <<packets returned, out afterwards>>
Buffer_flush(out) == <<SelectSeq(out, LAMBDA e : e # None), Buffer_clear(out)>>

\* ------------------------------------------------------------------------
\* The machine state the operations work on.  M is a record
\*   tt, pk, wb, sb, pob, mg, ch, delays, console, t, h
\* standing for topology_type, packets, wait_buffer, send_buffer,
\* packet_out_buffer, merges, channels, delays, console, t and hist.
\* ------------------------------------------------------------------------

\* ------------------------------------------------------------------------
\* Line
\* ------------------------------------------------------------------------
Line_is_clear(chs) == \E i \in 1 .. N_CHANNELS : chs[i] = None

\* variant: the wires share one bus, which takes one packet per tick
Line_inject_one_per_tick(M, l, p) ==
    IF \A r \in DOMAIN M.pk : M.h[r].entered # M.t
    THEN [m |-> [M EXCEPT !.pk[p].parent = LineParent(l),
                          !.pk[p].routing_delay = LineDelay,
                          !.h[p].entered = M.t],
          ret |-> None]
    ELSE [m |-> M, ret |-> p]

\* `channel = packet` rebinds the loop variable: Line.channels is not changed
Line_inject(M, l, p) ==
    IF \E i \in 1 .. N_CHANNELS : M.ch[l][i] = None
    THEN [m |-> [M EXCEPT !.pk[p].parent = LineParent(l),
                          !.pk[p].routing_delay = LineDelay,
                          !.h[p].entered = M.t],
          ret |-> None]
    ELSE [m |-> M, ret |-> p]

\* `channel = None` rebinds the loop variable: Line.channels is not changed
Line_dissassociate(chs, p) == chs

\* ------------------------------------------------------------------------
\* Core
\* ------------------------------------------------------------------------
\* variant: the packet keeps the parent it had
Core_inject_keeps_parent(M, c, p) ==
    [M EXCEPT !.pk[p].routing_delay = CoreDelay,
              !.wb[c] = Append(@, p)]

\* variant: the packet is put at the head of the wait buffer
Core_inject_at_head(M, c, p) ==
    [M EXCEPT !.pk[p].routing_delay = CoreDelay,
              !.pk[p].parent = CoreParent(c),
              !.wb[c] = <<p>> \o @]

Core_inject(M, c, p) ==
    [M EXCEPT !.pk[p].routing_delay = CoreDelay,
              !.pk[p].parent = CoreParent(c),
              !.wb[c] = Append(@, p)]

\* direction forward() sends a packet to; -1 when the displacement is zero
forward_direction(q) ==
    IF q.dx > 0 THEN EAST
    ELSE IF q.dx < 0 THEN WEST
    ELSE IF q.dy > 0 THEN NORTH
    ELSE IF q.dy < 0 THEN SOUTH
    ELSE IF q.dz > 0 THEN UP
    ELSE IF q.dz < 0 THEN DOWN
    ELSE -1

\* variant: a packet lost at the edge keeps its parent
Core_forward_lost_keeps_parent(M, c, p) ==
    LET q == M.pk[p]
        d == forward_direction(q)
    IN  IF d = -1
        THEN [m |-> [M EXCEPT !.pk[p].parent = NoParent,
                              !.h[p].fate = "arrived",
                              !.h[p].died = M.t,
                              !.h[p].diedAt = c],
              ret |-> None]
        ELSE IF lines_out(M.tt, c)[d] = None
        THEN [m |-> [M EXCEPT !.console = Append(@, p),
                              !.h[p].fate = "lost",
                              !.h[p].died = M.t,
                              !.h[p].diedAt = c],
              ret |-> None]
        ELSE IF Line_is_clear(M.ch[lines_out(M.tt, c)[d]]) /\ Buffer_is_clear(M.pob[c][d])
        THEN [m |-> [M EXCEPT !.pob[c][d] = Buffer_add(@, p)], ret |-> None]
        ELSE [m |-> M, ret |-> p]

\* variant: the staging slot is not tested before the packet is added
Core_forward_ignores_slot(M, c, p) ==
    LET q == M.pk[p]
        d == forward_direction(q)
    IN  IF d = -1
        THEN [m |-> [M EXCEPT !.pk[p].parent = NoParent,
                              !.h[p].fate = "arrived",
                              !.h[p].died = M.t,
                              !.h[p].diedAt = c],
              ret |-> None]
        ELSE IF lines_out(M.tt, c)[d] = None
        THEN [m |-> [M EXCEPT !.console = Append(@, p),
                              !.pk[p].parent = NoParent,
                              !.h[p].fate = "lost",
                              !.h[p].died = M.t,
                              !.h[p].diedAt = c],
              ret |-> None]
        ELSE IF Line_is_clear(M.ch[lines_out(M.tt, c)[d]])
        THEN [m |-> [M EXCEPT !.pob[c][d] = Buffer_add(@, p)], ret |-> None]
        ELSE [m |-> M, ret |-> p]

\* returns m (the state afterwards) and ret (None, or the packet it could not route)
Core_forward(M, c, p) ==
    LET q == M.pk[p]
        d == forward_direction(q)
    IN  IF d = -1
        THEN \* destroy the packet: it has reached its destination
             [m |-> [M EXCEPT !.pk[p].parent = NoParent,
                              !.h[p].fate = "arrived",
                              !.h[p].died = M.t,
                              !.h[p].diedAt = c],
              ret |-> None]
        ELSE IF lines_out(M.tt, c)[d] = None
        THEN \* "Packet <name> was lost"
             [m |-> [M EXCEPT !.console = Append(@, p),
                              !.pk[p].parent = NoParent,
                              !.h[p].fate = "lost",
                              !.h[p].died = M.t,
                              !.h[p].diedAt = c],
              ret |-> None]
        ELSE IF Line_is_clear(M.ch[lines_out(M.tt, c)[d]]) /\ Buffer_is_clear(M.pob[c][d])
        THEN [m |-> [M EXCEPT !.pob[c][d] = Buffer_add(@, p)], ret |-> None]
        ELSE [m |-> M, ret |-> p]

\* variant: winning a merge block costs no pipeline delay
merge_attempt_no_delay(M, c, d, p, newtag) ==
    IF M.mg[c][d] = None
    THEN [M EXCEPT !.mg[c][d] = p,
                   !.pk[p].directionality = newtag,
                   !.pk[p].routing_delay = 0,
                   !.h[p].wins = @ + 1,
                   !.h[p].first = IF @ = "none" THEN "won" ELSE @,
                   !.h[p].tryAt = M.t, !.h[p].tryDir = d, !.h[p].tryCore = c,
                   !.h[p].tryWon = TRUE, !.h[p].streak = 0,
                   !.h[p].firstAt = IF M.h[p].first = "none" THEN M.t ELSE @,
                   !.h[p].firstDir = IF M.h[p].first = "none" THEN d ELSE @]
    ELSE [M EXCEPT !.pk[p].routing_delay = 0,
                   !.delays = @ + 1,
                   !.h[p].losses = @ + 1,
                   !.h[p].first = IF @ = "none" THEN "lost" ELSE @,
                   !.h[p].tryAt = M.t, !.h[p].tryDir = d, !.h[p].tryCore = c,
                   !.h[p].tryWon = FALSE, !.h[p].streak = @ + 1,
                   !.h[p].firstAt = IF M.h[p].first = "none" THEN M.t ELSE @,
                   !.h[p].firstDir = IF M.h[p].first = "none" THEN d ELSE @]

\* variant: a lost arbitration is counted downwards
merge_attempt_counts_down(M, c, d, p, newtag) ==
    IF M.mg[c][d] = None
    THEN [M EXCEPT !.mg[c][d] = p,
                   !.pk[p].directionality = newtag,
                   !.h[p].wins = @ + 1,
                   !.h[p].first = IF @ = "none" THEN "won" ELSE @,
                   !.h[p].tryAt = M.t, !.h[p].tryDir = d, !.h[p].tryCore = c,
                   !.h[p].tryWon = TRUE, !.h[p].streak = 0,
                   !.h[p].firstAt = IF M.h[p].first = "none" THEN M.t ELSE @,
                   !.h[p].firstDir = IF M.h[p].first = "none" THEN d ELSE @]
    ELSE [M EXCEPT !.pk[p].routing_delay = 0,
                   !.delays = @ - 1,
                   !.h[p].losses = @ + 1,
                   !.h[p].first = IF @ = "none" THEN "lost" ELSE @,
                   !.h[p].tryAt = M.t, !.h[p].tryDir = d, !.h[p].tryCore = c,
                   !.h[p].tryWon = FALSE, !.h[p].streak = @ + 1,
                   !.h[p].firstAt = IF M.h[p].first = "none" THEN M.t ELSE @,
                   !.h[p].firstDir = IF M.h[p].first = "none" THEN d ELSE @]

\* variant: the winner does not take the merge block
merge_attempt_leaves_slot_free(M, c, d, p, newtag) ==
    IF M.mg[c][d] = None
    THEN [M EXCEPT !.pk[p].directionality = newtag,
                   !.h[p].wins = @ + 1,
                   !.h[p].first = IF @ = "none" THEN "won" ELSE @,
                   !.h[p].tryAt = M.t, !.h[p].tryDir = d, !.h[p].tryCore = c,
                   !.h[p].tryWon = TRUE, !.h[p].streak = 0,
                   !.h[p].firstAt = IF M.h[p].first = "none" THEN M.t ELSE @,
                   !.h[p].firstDir = IF M.h[p].first = "none" THEN d ELSE @]
    ELSE [M EXCEPT !.pk[p].routing_delay = 0,
                   !.delays = @ + 1,
                   !.h[p].losses = @ + 1,
                   !.h[p].first = IF @ = "none" THEN "lost" ELSE @,
                   !.h[p].tryAt = M.t, !.h[p].tryDir = d, !.h[p].tryCore = c,
                   !.h[p].tryWon = FALSE, !.h[p].streak = @ + 1,
                   !.h[p].firstAt = IF M.h[p].first = "none" THEN M.t ELSE @,
                   !.h[p].firstDir = IF M.h[p].first = "none" THEN d ELSE @]

\* variant: the loser keeps the pipeline delay set before the test
merge_attempt_loser_waits(M, c, d, p, newtag) ==
    IF M.mg[c][d] = None
    THEN [M EXCEPT !.mg[c][d] = p,
                   !.pk[p].directionality = newtag,
                   !.h[p].wins = @ + 1,
                   !.h[p].first = IF @ = "none" THEN "won" ELSE @,
                   !.h[p].tryAt = M.t, !.h[p].tryDir = d, !.h[p].tryCore = c,
                   !.h[p].tryWon = TRUE, !.h[p].streak = 0,
                   !.h[p].firstAt = IF M.h[p].first = "none" THEN M.t ELSE @,
                   !.h[p].firstDir = IF M.h[p].first = "none" THEN d ELSE @]
    ELSE [M EXCEPT !.delays = @ + 1,
                   !.h[p].losses = @ + 1,
                   !.h[p].first = IF @ = "none" THEN "lost" ELSE @,
                   !.h[p].tryAt = M.t, !.h[p].tryDir = d, !.h[p].tryCore = c,
                   !.h[p].tryWon = FALSE, !.h[p].streak = @ + 1,
                   !.h[p].firstAt = IF M.h[p].first = "none" THEN M.t ELSE @,
                   !.h[p].firstDir = IF M.h[p].first = "none" THEN d ELSE @]

\* one merge block: the packet wins it if it is free, else it is stalled
merge_attempt(M, c, d, p, newtag) ==
    IF M.mg[c][d] = None
    THEN [M EXCEPT !.mg[c][d] = p,
                   !.pk[p].directionality = newtag,
                   !.h[p].wins = @ + 1,
                   !.h[p].first = IF @ = "none" THEN "won" ELSE @,
                   !.h[p].tryAt = M.t, !.h[p].tryDir = d, !.h[p].tryCore = c,
                   !.h[p].tryWon = TRUE, !.h[p].streak = 0,
                   !.h[p].firstAt = IF M.h[p].first = "none" THEN M.t ELSE @,
                   !.h[p].firstDir = IF M.h[p].first = "none" THEN d ELSE @]
    ELSE [M EXCEPT !.pk[p].routing_delay = 0,
                   !.delays = @ + 1,
                   !.h[p].losses = @ + 1,
                   !.h[p].first = IF @ = "none" THEN "lost" ELSE @,
                   !.h[p].tryAt = M.t, !.h[p].tryDir = d, !.h[p].tryCore = c,
                   !.h[p].tryWon = FALSE, !.h[p].streak = @ + 1,
                   !.h[p].firstAt = IF M.h[p].first = "none" THEN M.t ELSE @,
                   !.h[p].firstDir = IF M.h[p].first = "none" THEN d ELSE @]

\* variant: a packet that has no further to go east or west is tagged for its
\* exit at once, without the second merge block
Core_advance_turns_at_once(M, c, p) ==
    LET q == M.pk[p]
        M0 == [M EXCEPT !.h[p].advAt = M.t,
                        !.h[p].attempt = IF @ < M.h[p].zeroAt THEN M.t ELSE @]
        M1 == [M0 EXCEPT !.pk[p].routing_delay = ArbiterDelay]
        vertical == IF q.dz > 0 THEN "up" ELSE IF q.dz < 0 THEN "down" ELSE "self-exit"
    IN  IF Contains(q.directionality, "exit")
        THEN [m |-> M0, is_outbound |-> TRUE]
        ELSE [is_outbound |-> FALSE,
              m |->
                IF q.directionality = "eastbound"
                THEN merge_attempt(M1, c, EAST, p,
                        IF q.dx # 0 THEN "east-exit"
                        ELSE IF q.dy > 0 THEN "north-exit" ELSE "south-exit")
                ELSE IF q.directionality = "westbound"
                THEN merge_attempt(M1, c, WEST, p,
                        IF q.dx # 0 THEN "west-exit"
                        ELSE IF q.dy > 0 THEN "north-exit" ELSE "south-exit")
                ELSE IF Contains(q.directionality, "south")
                THEN merge_attempt(M1, c, SOUTH, p,
                        IF q.dy # 0 THEN "south-exit" ELSE vertical)
                ELSE IF Contains(q.directionality, "north")
                THEN merge_attempt(M1, c, NORTH, p,
                        IF q.dy # 0 THEN "north-exit" ELSE vertical)
                ELSE IF Contains(q.directionality, "up")
                THEN merge_attempt(M1, c, UP, p, "up-exit")
                ELSE IF Contains(q.directionality, "down")
                THEN merge_attempt(M1, c, DOWN, p, "down-exit")
                ELSE M1]

\* returns m and is_outbound
Core_advance(M, c, p) ==
    LET q == M.pk[p]
        M0 == [M EXCEPT !.h[p].advAt = M.t,
                        !.h[p].attempt = IF @ < M.h[p].zeroAt THEN M.t ELSE @]
        M1 == [M0 EXCEPT !.pk[p].routing_delay = ArbiterDelay]
        vertical == IF q.dz > 0 THEN "up" ELSE IF q.dz < 0 THEN "down" ELSE "self-exit"
    IN  IF Contains(q.directionality, "exit")
        THEN [m |-> M0, is_outbound |-> TRUE]
        ELSE [is_outbound |-> FALSE,
              m |->
                IF q.directionality = "eastbound"
                THEN merge_attempt(M1, c, EAST, p,
                        IF q.dx # 0 THEN "east-exit"
                        ELSE IF q.dy > 0 THEN "north" ELSE "south")
                ELSE IF q.directionality = "westbound"
                THEN merge_attempt(M1, c, WEST, p,
                        IF q.dx # 0 THEN "west-exit"
                        ELSE IF q.dy > 0 THEN "north" ELSE "south")
                ELSE IF Contains(q.directionality, "south")
                THEN merge_attempt(M1, c, SOUTH, p,
                        IF q.dy # 0 THEN "south-exit" ELSE vertical)
                ELSE IF Contains(q.directionality, "north")
                THEN merge_attempt(M1, c, NORTH, p,
                        IF q.dy # 0 THEN "north-exit" ELSE vertical)
                ELSE IF Contains(q.directionality, "up")
                THEN merge_attempt(M1, c, UP, p, "up-exit")
                ELSE IF Contains(q.directionality, "down")
                THEN merge_attempt(M1, c, DOWN, p, "down-exit")
                ELSE M1]

\* variant: the merge blocks are not cleared at the end of route
Core_clear_merges_keeps(M, c) == M

Core_clear_merges(M, c) == [M EXCEPT !.mg[c] = [d \in Dirs |-> None]]


RECURSIVE route_send(_, _, _, _)
\* while len(self.send_buffer) > 0: packet = self.forward(self.send_buffer.popleft())
\* returns m and new_buffer
route_send(M, c, buf, new_buffer) ==
    IF buf = <<>> THEN [m |-> M, new_buffer |-> new_buffer]
    ELSE LET f == Core_forward(M, c, Head(buf))
         IN  route_send(f.m, c, Tail(buf),
                        IF f.ret # None THEN Append(new_buffer, f.ret) ELSE new_buffer)

\* variant: a forwarded packet is kept in the wait buffer as well
route_wait_one_keeps_forwarded(M, c, p, new_wait_buffer) ==
    IF M.pk[p].routing_delay > 0
    THEN [m |-> [M EXCEPT !.pk[p].routing_delay = @ - 1,
                          !.h[p].zeroAt = IF M.pk[p].routing_delay = 1 THEN M.t ELSE @],
          new_wait_buffer |-> Append(new_wait_buffer, p)]
    ELSE LET a == Core_advance(M, c, p)
         IN  IF a.is_outbound
             THEN LET f == Core_forward(a.m, c, p)
                  IN  IF f.ret # None
                      THEN [m |-> [f.m EXCEPT !.delays = @ + 1,
                                              !.sb[c] = Append(@, f.ret)],
                            new_wait_buffer |-> new_wait_buffer]
                      ELSE [m |-> f.m, new_wait_buffer |-> Append(new_wait_buffer, p)]
             ELSE [m |-> a.m, new_wait_buffer |-> Append(new_wait_buffer, p)]

\* variant: a packet whose delay is decremented to 0 is advanced in the same call
route_wait_one_same_tick(M, c, p, new_wait_buffer) ==
    LET M1 == IF M.pk[p].routing_delay > 0
              THEN [M EXCEPT !.pk[p].routing_delay = @ - 1,
                             !.h[p].zeroAt = IF M.pk[p].routing_delay = 1 THEN M.t ELSE @]
              ELSE M
    IN  IF M1.pk[p].routing_delay > 0
        THEN [m |-> M1, new_wait_buffer |-> Append(new_wait_buffer, p)]
        ELSE LET a == Core_advance(M1, c, p)
             IN  IF a.is_outbound
                 THEN LET f == Core_forward(a.m, c, p)
                      IN  IF f.ret # None
                          THEN [m |-> [f.m EXCEPT !.delays = @ + 1,
                                                  !.sb[c] = Append(@, f.ret)],
                                new_wait_buffer |-> new_wait_buffer]
                          ELSE [m |-> f.m, new_wait_buffer |-> new_wait_buffer]
                 ELSE [m |-> a.m, new_wait_buffer |-> Append(new_wait_buffer, p)]

\* the body of `for packet in self.wait_buffer`; returns m and new_wait_buffer
route_wait_one(M, c, p, new_wait_buffer) ==
    IF M.pk[p].routing_delay > 0
    THEN [m |-> [M EXCEPT !.pk[p].routing_delay = @ - 1,
                          !.h[p].zeroAt = IF M.pk[p].routing_delay = 1 THEN M.t ELSE @],
          new_wait_buffer |-> Append(new_wait_buffer, p)]
    ELSE LET a == Core_advance(M, c, p)
         IN  IF a.is_outbound
             THEN LET f == Core_forward(a.m, c, p)
                  IN  IF f.ret # None
                      THEN [m |-> [f.m EXCEPT !.delays = @ + 1,
                                              !.sb[c] = Append(@, f.ret)],
                            new_wait_buffer |-> new_wait_buffer]
                      ELSE [m |-> f.m, new_wait_buffer |-> new_wait_buffer]
             ELSE [m |-> a.m, new_wait_buffer |-> Append(new_wait_buffer, p)]

RECURSIVE route_wait(_, _, _, _)
route_wait(M, c, buf, new_wait_buffer) ==
    IF buf = <<>> THEN [m |-> M, new_wait_buffer |-> new_wait_buffer]
    ELSE LET p == Head(buf)
             Ms == [M EXCEPT !.h[p].scanAt = M.t,
                             !.h[p].scans = IF M.h[p].scanAt = M.t THEN @ + 1 ELSE 1]
             r == route_wait_one(Ms, c, p, new_wait_buffer)
         IN  route_wait(r.m, c, Tail(buf), r.new_wait_buffer)

Core_route(M, c) ==
    LET s == route_send(M, c, M.sb[c], <<>>)
        M1 == [s.m EXCEPT !.sb[c] = s.new_buffer]
        w == route_wait(M1, c, M1.wb[c], <<>>)
        M2 == [w.m EXCEPT !.wb[c] = w.new_wait_buffer]
    IN  Core_clear_merges(M2, c)

RECURSIVE send_packets(_, _, _, _)
\* for packet in packets: blocked_packet = self.lines_out[x].inject(packet)
send_packets(M, c, x, pkts) ==
    IF pkts = <<>> THEN M
    ELSE LET i == Line_inject(M, lines_out(M.tt, c)[x], Head(pkts))
             M1 == IF i.ret # None
                   THEN [i.m EXCEPT !.delays = @ + 1,
                                    !.pob[c][x] = Buffer_add(@, i.ret)]
                   ELSE i.m
         IN  send_packets(M1, c, x, Tail(pkts))

RECURSIVE send_from(_, _, _)
\* for x in range(0, len(self.lines_out))
send_from(M, c, x) ==
    IF x > 5 THEN M
    ELSE IF lines_out(M.tt, c)[x] # None
         THEN LET fl == Buffer_flush(M.pob[c][x])
                  M1 == [M EXCEPT !.pob[c][x] = fl[2]]
              IN  send_from(send_packets(M1, c, x, fl[1]), c, x + 1)
         ELSE send_from(M, c, x + 1)

Core_send_out(M, c) == send_from(M, c, 0)


\* ------------------------------------------------------------------------
\* simulate: the wire step (decrement, hop, to_visit)
\* ------------------------------------------------------------------------
Max(a, b) == IF a > b THEN a ELSE b
Min(a, b) == IF a < b THEN a ELSE b
Abs(a) == IF a < 0 THEN -a ELSE a
Range(f) == {f[i] : i \in DOMAIN f}

\* for packet in packets: if isinstance(packet.parent, Line): routing_delay = max(0, routing_delay - 1)
wire_decrement(pk) ==
    [p \in DOMAIN pk |->
        IF pk[p].parent.kind = "line"
        THEN [pk[p] EXCEPT !.routing_delay = Max(0, @ - 1)]
        ELSE pk[p]]

\* variant: the chain tests dy before dx
hop_move_y_first(q, co) ==
    IF q.dy > 0 /\ co # None THEN [q EXCEPT !.dy = @ - 1, !.directionality = "northbound"]
    ELSE IF q.dy < 0 /\ co # None THEN [q EXCEPT !.dy = @ + 1, !.directionality = "southbound"]
    ELSE IF q.dx > 0 /\ co # None THEN [q EXCEPT !.dx = @ - 1, !.directionality = "eastbound"]
    ELSE IF q.dx < 0 /\ co # None THEN [q EXCEPT !.dx = @ + 1, !.directionality = "westbound"]
    ELSE IF q.dz > 0 /\ co # None THEN [q EXCEPT !.dz = @ - 1, !.directionality = "upbound"]
    ELSE IF q.dz < 0 /\ co # None THEN [q EXCEPT !.dz = @ + 1, !.directionality = "downbound"]
    ELSE q

\* variant: the hop sets the tag and leaves the displacement as it was
hop_move_no_decrement(q, co) ==
    IF q.dx > 0 /\ co # None THEN [q EXCEPT !.directionality = "eastbound"]
    ELSE IF q.dx < 0 /\ co # None THEN [q EXCEPT !.directionality = "westbound"]
    ELSE IF q.dy > 0 /\ co # None THEN [q EXCEPT !.directionality = "northbound"]
    ELSE IF q.dy < 0 /\ co # None THEN [q EXCEPT !.directionality = "southbound"]
    ELSE IF q.dz > 0 /\ co # None THEN [q EXCEPT !.directionality = "upbound"]
    ELSE IF q.dz < 0 /\ co # None THEN [q EXCEPT !.directionality = "downbound"]
    ELSE q

\* the if/elif chain that moves the displacement of a packet leaving a wire
hop_move(q, co) ==
    IF q.dx > 0 /\ co # None THEN [q EXCEPT !.dx = @ - 1, !.directionality = "eastbound"]
    ELSE IF q.dx < 0 /\ co # None THEN [q EXCEPT !.dx = @ + 1, !.directionality = "westbound"]
    ELSE IF q.dy > 0 /\ co # None THEN [q EXCEPT !.dy = @ - 1, !.directionality = "northbound"]
    ELSE IF q.dy < 0 /\ co # None THEN [q EXCEPT !.dy = @ + 1, !.directionality = "southbound"]
    ELSE IF q.dz > 0 /\ co # None THEN [q EXCEPT !.dz = @ - 1, !.directionality = "upbound"]
    ELSE IF q.dz < 0 /\ co # None THEN [q EXCEPT !.dz = @ + 1, !.directionality = "downbound"]
    ELSE q

\* variant: the packet is handed to the upstream core of the wire
wire_one_uses_component_in(M, p, tv) ==
    LET q == M.pk[p]
        M1 == IF q.parent.kind = "line" /\ q.routing_delay = 0
              THEN LET l == q.parent.id
                       co == component_in(M.tt, l)
                       Ma == [M EXCEPT !.ch[l] = Line_dissassociate(@, p),
                                       !.pk[p] = hop_move(q, co)]
                   IN  IF co # None
                       THEN Core_inject([Ma EXCEPT !.h[p].hopped = M.t,
                                                   !.h[p].drainedFrom = M.h[p].entered,
                                                   !.h[p].hops = @ + 1,
                                                   !.h[p].path = Append(@, co),
                                                   !.h[p].cameAs = hop_move(q, co).directionality,
                                                   !.h[p].wins = 0], co, p)
                       ELSE Ma
              ELSE M
        par == M1.pk[p].parent
    IN  [m |-> M1,
         to_visit |-> IF par.kind = "core" /\ par.id \notin Range(tv)
                      THEN Append(tv, par.id) ELSE tv]

\* variant: the parent core is appended without the `not in to_visit` test
wire_one_appends_always(M, p, tv) ==
    LET q == M.pk[p]
        M1 == IF q.parent.kind = "line" /\ q.routing_delay = 0
              THEN LET l == q.parent.id
                       co == component_out(M.tt, l)
                       Ma == [M EXCEPT !.ch[l] = Line_dissassociate(@, p),
                                       !.pk[p] = hop_move(q, co)]
                   IN  IF co # None
                       THEN Core_inject([Ma EXCEPT !.h[p].hopped = M.t,
                                                   !.h[p].drainedFrom = M.h[p].entered,
                                                   !.h[p].hops = @ + 1,
                                                   !.h[p].path = Append(@, co),
                                                   !.h[p].cameAs = hop_move(q, co).directionality,
                                                   !.h[p].wins = 0], co, p)
                       ELSE Ma
              ELSE M
        par == M1.pk[p].parent
    IN  [m |-> M1,
         to_visit |-> IF par.kind = "core"
                      THEN Append(tv, par.id) ELSE tv]

\* the body of the second `for packet in packets`; returns m and to_visit
wire_one(M, p, tv) ==
    LET q == M.pk[p]
        M1 == IF q.parent.kind = "line" /\ q.routing_delay = 0
              THEN LET l == q.parent.id
                       co == component_out(M.tt, l)
                       Ma == [M EXCEPT !.ch[l] = Line_dissassociate(@, p),
                                       !.pk[p] = hop_move(q, co)]
                   IN  IF co # None
                       THEN Core_inject([Ma EXCEPT !.h[p].hopped = M.t,
                                                   !.h[p].drainedFrom = M.h[p].entered,
                                                   !.h[p].hops = @ + 1,
                                                   !.h[p].path = Append(@, co),
                                                   !.h[p].cameAs = hop_move(q, co).directionality,
                                                   !.h[p].wins = 0], co, p)
                       ELSE Ma
              ELSE M
        par == M1.pk[p].parent
    IN  [m |-> M1,
         to_visit |-> IF par.kind = "core" /\ par.id \notin Range(tv)
                      THEN Append(tv, par.id) ELSE tv]

RECURSIVE wire_loop(_, _, _)
wire_loop(M, p, tv) ==
    IF p > Len(M.pk) THEN [m |-> M, to_visit |-> tv]
    ELSE LET r == wire_one(M, p, tv)
         IN  wire_loop(r.m, p + 1, r.to_visit)

wire_step(M) == wire_loop([M EXCEPT !.pk = wire_decrement(@)], 1, <<>>)

\* ------------------------------------------------------------------------
\* Workloads: toy_run / toy_run3D and random_firestorm
\* ------------------------------------------------------------------------
\* --distance (mean_distance)
mean_distance == 1

Cap(tt) == IF tt = "mesh" THEN MaxPackets ELSE MaxPackets3D

\* a toy packet: any source core, any displacement
ToyDraws(tt) ==
    {<<c, dx, dy, dz>> : c \in Cores(tt), dx \in -MaxDisp .. MaxDisp, dy \in -MaxDisp .. MaxDisp,
                         dz \in IF tt = "mesh" THEN {0} ELSE -MaxDisp .. MaxDisp}

\* variant: the displacements are drawn without looking at the position of the core
FireDraws_unclamped(tt, c) ==
    {<<c, x_val, y_val, z_val>> :
        x_val \in (-mean_distance * 2) .. (mean_distance * 2),
        y_val \in (-mean_distance * 2) .. (mean_distance * 2),
        z_val \in IF tt = "mesh" THEN {0} ELSE (-mean_distance * 2) .. (mean_distance * 2)}

\* the displacements random_firestorm draws for a neuron of core c
FireDraws(tt, c) ==
    LET x == CX(c)
        y == CY(c)
        z == CZ(c)
        min_x == Max(0, -mean_distance * 2 + y) - y
        max_x == Min(width - 1, y + (mean_distance * 2)) - y
        max_y == Min(width - 1, mean_distance * 2 + x) - x
        min_y == Max(0, x - (mean_distance * 2)) - x
        min_z == Max(-(width - 1 - z), -mean_distance * 2)
        max_z == Min(mean_distance * 2, z)
    IN  {<<c, x_val, y_val, z_val>> :
            x_val \in min_x .. max_x, y_val \in (-max_y) .. (-min_y),
            z_val \in IF tt = "mesh" THEN {0} ELSE min_z .. max_z}

\* position of core c in the loop nest of random_firestorm
FireOrder(tt, c) ==
    IF tt = "mesh" THEN CX(c) * width + CY(c)
    ELSE (CX(c) * width + CY(c)) * width + CZ(c)

\* the lists of k packets drawn from draws
Batches(draws, k) == [1 .. k -> draws]

AllFireDraws(tt) == UNION {FireDraws(tt, c) : c \in Cores(tt)}

\* random_firestorm creates the packets of a tick in the order of its loop nest
InFireOrder(tt, b) ==
    \A i \in 1 .. Len(b) - 1 : FireOrder(tt, b[i][1]) <= FireOrder(tt, b[i + 1][1])

NewHistory(c, dx, dy, dz, tk) ==
    [born |-> tk, src |-> c, disp0 |-> <<dx, dy, dz>>, fate |-> "live",
     died |-> -1, diedAt |-> None, entered |-> -1, hopped |-> -1, drainedFrom |-> -1,
     hops |-> 0, zeroAt |-> -1, advAt |-> -1, attempt |-> -1, wins |-> 0, losses |-> 0,
     path |-> <<>>, first |-> "none", firstAt |-> -1, firstDir |-> -1,
     tryAt |-> -1, tryDir |-> -1, tryCore |-> None, tryWon |-> FALSE,
     cameAs |-> "source", scanAt |-> -1, scans |-> 0, streak |-> 0]

RECURSIVE inject_batch(_, _)
\* packets.append(Packet(core, dx, dy, dz)) ... packet.parent.inject(packet)
inject_batch(M, batch) ==
    IF batch = <<>> THEN M
    ELSE LET b == Head(batch)
             p == Len(M.pk) + 1
             M1 == [M EXCEPT !.pk = Append(@, Packet(b[1], b[2], b[3], b[4])),
                             !.h = Append(@, NewHistory(b[1], b[2], b[3], b[4], M.t))]
         IN  inject_batch(Core_inject(M1, b[1], p), Tail(batch))

\* ------------------------------------------------------------------------
\* simulate: the order of the steps of one tick
\* ------------------------------------------------------------------------
\* variant: the wires are aged and drained after the send_out loop
simulate_steps_wires_last == <<"workload", "route", "send_out", "wires">>

simulate_steps == <<"workload", "wires", "route", "send_out">>

\* has the step anything to do
Due(step, wl, tt, n, tk, rq, sq) ==
    CASE step = "workload" -> wl = "random" /\ tk < InjectTicks /\ n < Cap(tt)
      [] step = "wires"    -> TRUE
      [] step = "route"    -> rq # <<>>
      [] step = "send_out" -> sq # {}

SetMin(S) == CHOOSE i \in S : \A j \in S : i <= j

\* the step that runs after step number i of tick tk: <<pc, t>>
StepAfter(i, wl, tt, n, tk, rq, sq) ==
    LET later == {j \in (i + 1) .. Len(simulate_steps) :
                      Due(simulate_steps[j], wl, tt, n, tk, rq, sq)}
        first == {j \in 1 .. Len(simulate_steps) :
                      Due(simulate_steps[j], wl, tt, n, tk + 1, rq, sq)}
    IN  IF later # {} THEN <<simulate_steps[SetMin(later)], tk>>
        ELSE IF tk + 1 >= timesteps THEN <<"done", tk + 1>>
        ELSE <<simulate_steps[SetMin(first)], tk + 1>>

StepIndex(step) == CHOOSE i \in 1 .. Len(simulate_steps) : simulate_steps[i] = step

\* ------------------------------------------------------------------------
\* State machine
\* ------------------------------------------------------------------------
Cur ==
    [tt |-> topology_type, pk |-> packets, wb |-> wait_buffer, sb |-> send_buffer,
     pob |-> packet_out_buffer, mg |-> merges, ch |-> channels, delays |-> delays,
     console |-> console, t |-> t, h |-> hist]

Install(M) ==
    /\ packets' = M.pk
    /\ wait_buffer' = M.wb
    /\ send_buffer' = M.sb
    /\ packet_out_buffer' = M.pob
    /\ merges' = M.mg
    /\ channels' = M.ch
    /\ delays' = M.delays
    /\ console' = M.console
    /\ hist' = M.h

Goto(step, n, rq, sq) ==
    LET nx == IF step = "start"
              THEN StepAfter(0, workload, topology_type, n, t, rq, sq)
              ELSE StepAfter(StepIndex(step), workload, topology_type, n, t, rq, sq)
    IN  /\ pc' = IF step = "start" /\ timesteps = 0 THEN "done" ELSE nx[1]
        /\ t' = IF step = "start" /\ timesteps = 0 THEN 0 ELSE nx[2]

InitTopology(tt, wl, w, ts) ==
    /\ topology_type = tt
    /\ workload \in wl
    /\ width = w
    /\ timesteps = ts
    /\ call = NoCall
    /\ packets = <<>>
    /\ wait_buffer = [c \in Cores(tt) |-> <<>>]
    /\ send_buffer = [c \in Cores(tt) |-> <<>>]
    /\ packet_out_buffer = [c \in Cores(tt) |-> [d \in Dirs |-> EmptySlots]]
    /\ merges = [c \in Cores(tt) |-> [d \in Dirs |-> None]]
    /\ channels = [l \in Lines(tt) |-> EmptySlots]
    /\ delays = 0
    /\ console = <<>>
    /\ t = 0
    /\ pc = "start"
    /\ to_visit = <<>>
    /\ to_route = <<>>
    /\ to_send = {}
    /\ hist = <<>>

Init == InitTopology("mesh", {"toy", "random"}, Width, Timesteps) /\ fw = NoRouter

Init3D == InitTopology("3Dmesh", {"toy", "random"}, Width, Timesteps) /\ fw = NoRouter

\* simulate up to the loop: the toy workload is created and injected
Begin ==
    /\ pc = "start"
    /\ \E k \in 0 .. (IF workload = "toy" THEN Cap(topology_type) ELSE 0) :
       \E batch \in Batches(ToyDraws(topology_type), k) :
          /\ Install(inject_batch(Cur, batch))
          /\ Goto("start", Len(batch), to_route, to_send)
    /\ UNCHANGED <<topology_type, workload, width, timesteps, fw, call, to_visit, to_route, to_send>>

\* new_packets, new_distance = random_firestorm(...); packets += new_packets
RandomFirestorm ==
    /\ pc = "workload"
    /\ \E k \in 0 .. (Cap(topology_type) - Len(packets)) :
       \E batch \in Batches(AllFireDraws(topology_type), k) :
          /\ InFireOrder(topology_type, batch)
          /\ Install(inject_batch(Cur, batch))
          /\ Goto("workload", Len(packets) + Len(batch), to_route, to_send)
    /\ UNCHANGED <<topology_type, workload, width, timesteps, fw, call, to_visit, to_route, to_send>>

\* the two `for packet in packets` loops
Wires ==
    /\ pc = "wires"
    /\ LET r == wire_step(Cur)
       IN  /\ Install(r.m)
           /\ to_visit' = r.to_visit
           /\ to_route' = r.to_visit
           /\ to_send' = Range(r.to_visit)
           /\ Goto("wires", Len(packets), r.to_visit, Range(r.to_visit))
    /\ UNCHANGED <<topology_type, workload, width, timesteps, fw, call>>

\* for core in to_visit: core.route()
Route ==
    /\ pc = "route"
    /\ to_route # <<>>
    /\ Install(Core_route(Cur, Head(to_route)))
    /\ to_route' = Tail(to_route)
    /\ IF Tail(to_route) # <<>> THEN pc' = pc /\ t' = t
       ELSE Goto("route", Len(packets), <<>>, to_send)
    /\ UNCHANGED <<topology_type, workload, width, timesteps, fw, call, to_visit, to_send>>

\* random.shuffle(to_visit); for core in to_visit: core.send_out()
SendOut(c) ==
    /\ pc = "send_out"
    /\ c \in to_send
    /\ Install(Core_send_out(Cur, c))
    /\ to_send' = to_send \ {c}
    /\ IF to_send' # {} THEN pc' = pc /\ t' = t
       ELSE Goto("send_out", Len(packets), to_route, {})
    /\ UNCHANGED <<topology_type, workload, width, timesteps, fw, call, to_visit, to_route>>

Next ==
    \/ Begin
    \/ RandomFirestorm
    \/ Wires
    \/ Route
    \/ \E c \in Cores(topology_type) : SendOut(c)

Spec == Init /\ [][Next]_vars

Spec3D == Init3D /\ [][Next]_vars

\* both topologies
SpecAll == (Init \/ Init3D) /\ [][Next]_vars

\* ------------------------------------------------------------------------
\* The end-to-end runs: a 16 x 16 mesh, --t 100, a toy workload of one or
\* two packets
\* ------------------------------------------------------------------------
\* width of construct_mesh(256)
ScenarioWidth == 16
\* --t
ScenarioTimesteps == 100

\* Packet(core_array[0][0], 4, 0)
single_long_hop == << <<CoreAt(0, 0, 0), 4, 0, 0>> >>

\* Packet(core_array[0][0], 4, -1) twice
two_eastbound == << <<CoreAt(0, 0, 0), 4, -1, 0>>, <<CoreAt(0, 0, 0), 4, -1, 0>> >>

\* Packet(core_array[5][5], 2, -3)
corner_turn == << <<CoreAt(5, 5, 0), 2, -3, 0>> >>

\* Packet(core_array[15][14], 5, -5)
edge_loss == << <<CoreAt(15, 14, 0), 5, -5, 0>> >>

\* Packet(core_array[10][9], 1, -5)
contention_A == <<CoreAt(10, 9, 0), 1, -5, 0>>

\* Packet(core_array[9][10], 0, -5)
contention_B == <<CoreAt(9, 10, 0), 0, -5, 0>>

merge_contention == <<contention_A, contention_B>>

EndToEnd ==
    {single_long_hop, two_eastbound, corner_turn, edge_loss, merge_contention,
     <<contention_A>>, <<contention_B>>}

InitScenarios ==
    InitTopology("mesh", {"toy"}, ScenarioWidth, ScenarioTimesteps) /\ fw = NoRouter

\* simulate up to the loop, with the packets of one of the end-to-end runs
BeginScenario ==
    /\ pc = "start"
    /\ \E batch \in EndToEnd :
          /\ Install(inject_batch(Cur, batch))
          /\ Goto("start", Len(batch), to_route, to_send)
    /\ UNCHANGED <<topology_type, workload, width, timesteps, fw, call, to_visit, to_route, to_send>>

NextScenarios ==
    \/ BeginScenario
    \/ Wires
    \/ Route
    \/ \E c \in Cores(topology_type) : SendOut(c)

SpecScenarios == InitScenarios /\ [][NextScenarios]_vars

\* ------------------------------------------------------------------------
\* simulate as a function: the whole run of a workload of one packet, where
\* to_visit never has more than one core and the shuffle has nothing to choose
\* ------------------------------------------------------------------------
\* the machine after construct_mesh / construct_3D_mesh
Fresh ==
    [tt |-> topology_type, pk |-> <<>>,
     wb |-> [c \in Cores(topology_type) |-> <<>>],
     sb |-> [c \in Cores(topology_type) |-> <<>>],
     pob |-> [c \in Cores(topology_type) |-> [d \in Dirs |-> EmptySlots]],
     mg |-> [c \in Cores(topology_type) |-> [d \in Dirs |-> None]],
     ch |-> [l \in Lines(topology_type) |-> EmptySlots],
     delays |-> 0, console |-> <<>>, t |-> 0, h |-> <<>>]

RECURSIVE route_all(_, _)
\* for core in to_visit: core.route()
route_all(M, tv) ==
    IF tv = <<>> THEN M ELSE route_all(Core_route(M, Head(tv)), Tail(tv))

RECURSIVE send_out_all(_, _)
\* for core in to_visit: core.send_out()
send_out_all(M, tv) ==
    IF tv = <<>> THEN M ELSE send_out_all(Core_send_out(M, Head(tv)), Tail(tv))

RECURSIVE simulate_from(_, _)
\* for t in range(tk, timesteps); M.t is the tick before tk, so the second
\* test never holds: it has M evaluated before the next tick is entered
simulate_from(M, tk) ==
    IF tk >= timesteps \/ M.t # Max(0, tk - 1) THEN M
    ELSE LET w == wire_step([M EXCEPT !.t = tk])
             r == route_all(w.m, w.to_visit)
         IN  simulate_from(send_out_all(r, w.to_visit), tk + 1)

\* the machine at the end of simulate for a toy workload of one packet
run_alone(b) == simulate_from(inject_batch(Fresh, <<b>>), 0)


\* ------------------------------------------------------------------------
\* Core.forward called on its own: a core of a fresh mesh holds the packet
\* and, in one staging slot or in none, a packet staged before it in the
\* same route() call
\* ------------------------------------------------------------------------
Holds(M) ==
    /\ packets = M.pk
    /\ wait_buffer = M.wb
    /\ send_buffer = M.sb
    /\ packet_out_buffer = M.pob
    /\ merges = M.mg
    /\ channels = M.ch
    /\ delays = M.delays
    /\ console = M.console
    /\ hist = M.h

\* a displacement of one hop in direction d
OneHop(d) ==
    CASE d = EAST  -> <<1, 0, 0>>
      [] d = WEST  -> <<-1, 0, 0>>
      [] d = NORTH -> <<0, 1, 0>>
      [] d = SOUTH -> <<0, -1, 0>>
      [] d = UP    -> <<0, 0, 1>>
      [] d = DOWN  -> <<0, 0, -1>>

\* packet 1, drawn as b, waits in its core; if occ is a direction, packet 2 of
\* the same core has been added to packet_out_buffer[occ]
Staged(b, occ) ==
    LET c == b[1]
        M1 == inject_batch(Fresh, <<b>>)
        M2 == inject_batch(M1, << <<c, OneHop(occ)[1], OneHop(occ)[2], OneHop(occ)[3]>> >>)
    IN  IF occ = -1 THEN M1
        ELSE [M2 EXCEPT !.wb[c] = <<1>>, !.pob[c][occ] = Buffer_add(@, 2)]

InitForward ==
    /\ topology_type \in {"mesh", "3Dmesh"}
    /\ workload = "toy"
    /\ width = Width
    /\ timesteps = Timesteps
    /\ fw = NoRouter
    /\ t = 0
    /\ pc = "call"
    /\ to_visit = <<>>
    /\ to_route = <<>>
    /\ to_send = {}
    /\ \E b \in ToyDraws(topology_type) :
       \E occ \in {-1} \cup {d \in Dirs : lines_out(topology_type, b[1])[d] # None} :
          LET M == Staged(b, occ)
          IN  /\ Holds(M)
              /\ call = [op |-> "forward", core |-> b[1], packet |-> 1, ret |-> "pending"]

\* core.forward(packet)
Forward ==
    /\ call.op = "forward"
    /\ call.ret = "pending"
    /\ LET f == Core_forward(Cur, call.core, call.packet)
       IN  /\ Install(f.m)
           /\ call' = [call EXCEPT !.ret = IF f.ret = None THEN "None" ELSE "packet"]
    /\ UNCHANGED <<topology_type, workload, width, timesteps, fw, t, pc,
                   to_visit, to_route, to_send>>

NextForward == Forward

SpecForward == InitForward /\ [][NextForward]_vars

\* ------------------------------------------------------------------------
\* A busy core: a random workload in which only the neurons of core_array[0][0]
\* fire, during the first ticks of the run.  One action is one pass of the
\* loop of simulate, its send_out calls in list order.
\* ------------------------------------------------------------------------
\* packets the workload creates in all
BusyPackets == 4
\* the neurons fire in ticks 0 .. BusyArrivals - 1
BusyArrivals == 3
\* neurons that fire in one tick, at most
BusyBatch == 3
\* --t of the run
BusyTimesteps == 12

InitBusy ==
    InitTopology("mesh", {"random"}, Width, BusyTimesteps) /\ fw = NoRouter

\* random_firestorm, for the neurons of core_array[0][0]
BusyFire ==
    /\ pc \in {"start", "fire"}
    /\ t < timesteps
    /\ \E k \in 0 .. (IF t < BusyArrivals THEN Min(BusyBatch, BusyPackets - Len(packets)) ELSE 0) :
       \E batch \in Batches(FireDraws(topology_type, CoreAt(0, 0, 0)), k) :
          Install(inject_batch(Cur, batch))
    /\ pc' = "tick"
    /\ UNCHANGED <<topology_type, workload, width, timesteps, fw, call, t,
                   to_visit, to_route, to_send>>

\* the rest of one pass of `for t in range(0, timesteps)`
BusyTick ==
    /\ pc = "tick"
    /\ LET w == wire_step(Cur)
           r == route_all(w.m, w.to_visit)
       IN  /\ Install(send_out_all(r, w.to_visit))
           /\ to_visit' = w.to_visit
    /\ t' = t + 1
    /\ pc' = IF t + 1 >= timesteps THEN "done" ELSE "fire"
    /\ UNCHANGED <<topology_type, workload, width, timesteps, fw, call, to_route, to_send>>

NextBusy == BusyFire \/ BusyTick

\* `for t in range(0, timesteps)` goes on to the next t: of the steps of
\* NextBusy it is those of BusyTick that are taken from pc = "tick" and add 1
\* to t
BusyLoop == pc = "tick" /\ t' = t + 1

\* the loop of simulate runs to its last tick
SpecBusy == InitBusy /\ [][NextBusy]_vars /\ WF_vars(BusyFire) /\ WF_t(BusyLoop)

\* ------------------------------------------------------------------------
\* The legacy router: src/routing_simulator.py (ForwardWest, its components
\* and simulate).  fw is a record
\*   line     the packet on each Line (FWNone when it is empty)
\*   backlog  the backlog queue of each component
\*   todo     the components next_config has still to run in this pass
\*   pc       "next_config" | "outputs" | "done"
\*   printed  the direction simulate printed
\* ------------------------------------------------------------------------
\* Python's None where a packet is expected
FWNone == [value |-> "None"]

all_components ==
    {"local_source_component", "east_source_component", "merge_in", "buffer",
     "comparator_x", "adder", "comparator_y"}

\* the Line objects: Component.line_in / line_out of the two sources, and the
\* lines each component of ForwardWest creates
FWLines ==
    {"local.line_in", "local.line_out", "east.line_in", "east.line_out",
     "merge_in.line_out", "buffer.line_out", "comparator_x.true_out",
     "comparator_x.false_out", "adder.line_out", "comparator_y.true_out",
     "comparator_y.false_out"}

\* Line.component_in: the component that created the line with Line(self)
FWLine_component_in(l) ==
    CASE l = "local.line_in" -> None
      [] l = "local.line_out" -> "local_source_component"
      [] l = "east.line_in" -> None
      [] l = "east.line_out" -> "east_source_component"
      [] l = "merge_in.line_out" -> "merge_in"
      [] l = "buffer.line_out" -> "buffer"
      [] l \in {"comparator_x.true_out", "comparator_x.false_out"} -> "comparator_x"
      [] l = "adder.line_out" -> "adder"
      [] l \in {"comparator_y.true_out", "comparator_y.false_out"} -> "comparator_y"

\* line_in of the components that have one
FWline_in(comp) ==
    CASE comp = "local_source_component" -> "local.line_in"
      [] comp = "east_source_component" -> "east.line_in"
      [] comp = "buffer" -> "merge_in.line_out"
      [] comp = "comparator_x" -> "buffer.line_out"
      [] comp = "adder" -> "comparator_x.false_out"
      [] comp = "comparator_y" -> "comparator_x.true_out"

\* Packet.__init__ of routing_simulator.py
FWPacket(value, dx, dy) == [value |-> value, dx |-> dx, dy |-> dy, hops |-> 0, gate_delays |-> 0]

\* Component.stall
FWstall(F, comp, packet) == [F EXCEPT !.backlog[comp] = Append(@, packet)]

\* Line.inject
FWinject(F, l, packet) ==
    IF packet # FWNone /\ F.line[l] # FWNone
    THEN FWstall(F, FWLine_component_in(l), packet)
    ELSE [F EXCEPT !.line[l] = packet]

\* Line.delete_packet
FWdelete_packet(F, l) == [F EXCEPT !.line[l] = FWNone]

\* variant: the comparator of kind 'negative' tests for a positive value
Comparator_execute_tests_positive(F, comp, packet) ==
    LET direction == IF comp = "comparator_x" THEN "dx" ELSE "dy"
        kind == IF comp = "comparator_x" THEN "zero" ELSE "negative"
        v == IF direction = "dx" THEN packet.dx ELSE packet.dy
        true_out == IF comp = "comparator_x" THEN "comparator_x.true_out"
                    ELSE "comparator_y.true_out"
        false_out == IF comp = "comparator_x" THEN "comparator_x.false_out"
                     ELSE "comparator_y.false_out"
    IN  IF packet = FWNone THEN F
        ELSE IF kind = "zero"
        THEN (IF v = 0 THEN FWinject(F, true_out, packet) ELSE FWinject(F, false_out, packet))
        ELSE (IF v > 0 THEN FWinject(F, true_out, packet) ELSE FWinject(F, false_out, packet))

\* Comparator.execute; comparator_x is Comparator(.., 'dx', 'zero'),
\* comparator_y is Comparator(.., 'dy', 'negative')
Comparator_execute(F, comp, packet) ==
    LET direction == IF comp = "comparator_x" THEN "dx" ELSE "dy"
        kind == IF comp = "comparator_x" THEN "zero" ELSE "negative"
        v == IF direction = "dx" THEN packet.dx ELSE packet.dy
        true_out == IF comp = "comparator_x" THEN "comparator_x.true_out"
                    ELSE "comparator_y.true_out"
        false_out == IF comp = "comparator_x" THEN "comparator_x.false_out"
                     ELSE "comparator_y.false_out"
    IN  IF packet = FWNone THEN F
        ELSE IF kind = "zero"
        THEN (IF v = 0 THEN FWinject(F, true_out, packet) ELSE FWinject(F, false_out, packet))
        ELSE (IF v < 0 THEN FWinject(F, true_out, packet) ELSE FWinject(F, false_out, packet))

\* ArithmeticUnit.execute; adder is ArithmeticUnit(.., 'dx', 'increment')
ArithmeticUnit_execute(F, comp, packet) ==
    IF packet = FWNone THEN F
    ELSE FWinject(F, "adder.line_out", [packet EXCEPT !.dx = @ + 1])

\* execute of each component
FWexecute(F, comp, packet) ==
    CASE comp \in {"local_source_component", "east_source_component"} -> F
      [] comp = "buffer" -> FWinject(F, "buffer.line_out", packet)
      [] comp = "merge_in" -> FWinject(F, "merge_in.line_out", packet)
      [] comp \in {"comparator_x", "comparator_y"} -> Comparator_execute(F, comp, packet)
      [] comp = "adder" -> ArithmeticUnit_execute(F, comp, packet)

\* Component.safe_execute
Component_safe_execute(F, comp) ==
    IF F.backlog[comp] = <<>>
    THEN IF F.line[FWline_in(comp)] # FWNone
         THEN FWdelete_packet(FWexecute(F, comp, F.line[FWline_in(comp)]), FWline_in(comp))
         ELSE F
    ELSE LET F1 == [F EXCEPT !.backlog[comp] = Append(@, F.line[FWline_in(comp)])]
             F2 == [F1 EXCEPT !.backlog[comp] = Tail(@)]
         IN  FWexecute(F2, comp, Head(F1.backlog[comp]))

\* one `if self.line_in_k.packet: execute; delete_packet` of Merger.safe_execute
Merger_take(F, l) ==
    IF F.line[l] # FWNone THEN FWdelete_packet(FWexecute(F, "merge_in", F.line[l]), l) ELSE F

\* Merger.safe_execute; with one packet in the backlog the second
\* backlog.get() waits for ever: the model leaves the state as it is
Merger_safe_execute(F) ==
    IF F.backlog["merge_in"] = <<>>
    THEN Merger_take(Merger_take(F, "local.line_out"), "east.line_out")
    ELSE LET F1 == IF F.line["local.line_out"] # FWNone
                   THEN [F EXCEPT !.backlog["merge_in"] = Append(@, F.line["local.line_out"])]
                   ELSE F
             F2 == IF F1.line["east.line_out"] # FWNone
                   THEN [F1 EXCEPT !.backlog["merge_in"] = Append(@, F1.line["east.line_out"])]
                   ELSE F1
             F3 == FWexecute([F2 EXCEPT !.backlog["merge_in"] = Tail(@)], "merge_in",
                             Head(F2.backlog["merge_in"]))
         IN  IF F3.backlog["merge_in"] = <<>> THEN F3
             ELSE FWexecute([F3 EXCEPT !.backlog["merge_in"] = Tail(@)], "merge_in",
                            Head(F3.backlog["merge_in"]))

safe_execute(F, comp) ==
    IF comp = "merge_in" THEN Merger_safe_execute(F) ELSE Component_safe_execute(F, comp)

\* ForwardWest.outputs: West, South, North
outputs == <<"adder.line_out", "comparator_y.true_out", "comparator_y.false_out">>

\* ForwardWest.direction
direction(output) ==
    CASE output = "adder.line_out" -> "west"
      [] output = "comparator_y.true_out" -> "south"
      [] output = "comparator_y.false_out" -> "north"

\* component_1.line_out.inject(packet); fw = ForwardWest(component_1, component_2)
ForwardWest(packet) ==
    [line |-> [l \in FWLines |-> IF l = "local.line_out" THEN packet ELSE FWNone],
     backlog |-> [comp \in all_components |-> <<>>],
     todo |-> all_components,
     pc |-> "next_config",
     printed |-> "",
     injected |-> packet]

\* the variables of core_simulator.py
sim_vars ==
    <<topology_type, packets, wait_buffer, send_buffer, packet_out_buffer, merges,
      channels, delays, console, t, pc, to_visit, to_route, to_send, workload, width,
      timesteps, call, hist>>

InitLegacy ==
    /\ InitTopology("mesh", {"toy"}, Width, Timesteps)
    /\ \E dx \in -MaxDisp .. MaxDisp, dy \in -MaxDisp .. MaxDisp :
          fw = ForwardWest(FWPacket("Test", dx, dy))

\* next_config: `for component in model.all_components` walks a set, in any order
SafeExecute(comp) ==
    /\ fw.pc = "next_config"
    /\ comp \in fw.todo
    /\ LET F == safe_execute(fw, comp)
       IN  fw' = [F EXCEPT !.todo = @ \ {comp},
                           !.pc = IF fw.todo = {comp} THEN "outputs" ELSE @]
    /\ UNCHANGED sim_vars

\* the `for x in range(0, len(model.outputs()))` of simulate
Outputs ==
    /\ fw.pc = "outputs"
    /\ LET full == {x \in 1 .. Len(outputs) : fw.line[outputs[x]] # FWNone}
       IN  fw' = IF full # {}
                 THEN [fw EXCEPT !.printed = direction(outputs[SetMin(full)]), !.pc = "done"]
                 ELSE [fw EXCEPT !.todo = all_components, !.pc = "next_config"]
    /\ UNCHANGED sim_vars

NextLegacy ==
    \/ \E comp \in all_components : SafeExecute(comp)
    \/ Outputs

\* the while loop of simulate keeps running until fin
SpecLegacy == InitLegacy /\ [][NextLegacy]_vars /\ WF_vars(NextLegacy)

\* ------------------------------------------------------------------------
\* Observations used by the properties
\* ------------------------------------------------------------------------
PacketIds == DOMAIN packets

TheCores == Cores(topology_type)

TheLines == Lines(topology_type)

\* packets whose parent is line l
OnLine(l) == {p \in PacketIds : packets[p].parent = LineParent(l)}

Live == {p \in PacketIds : packets[p].parent.kind # "none"}

Arrived == {p \in PacketIds : hist[p].fate = "arrived"}

\* a tick has been completed and the next has not begun
EndOfTick == t > 0 /\ pc \in {"workload", "wires", "done"}

\* every place of the cores' state that holds packet p
Places(p) ==
    UNION {{<<c, "wait_buffer", i, 0>> :
                i \in {j \in DOMAIN wait_buffer[c] : wait_buffer[c][j] = p}} : c \in TheCores}
    \cup
    UNION {{<<c, "send_buffer", i, 0>> :
                i \in {j \in DOMAIN send_buffer[c] : send_buffer[c][j] = p}} : c \in TheCores}
    \cup
    UNION {{<<cd[1], "packet_out_buffer", cd[2], x>> :
                x \in {y \in 1 .. N_CHANNELS : packet_out_buffer[cd[1]][cd[2]][y] = p}} :
           cd \in TheCores \X Dirs}
    \cup
    {<<cd[1], "merge", cd[2], 0>> : cd \in {e \in TheCores \X Dirs : merges[e[1]][e[2]] = p}}

\* the packets held in the buffers of core c
Held(c) ==
    Range(wait_buffer[c]) \cup Range(send_buffer[c])
    \cup (UNION {Range(packet_out_buffer[c][d]) : d \in Dirs} \ {None})

\* ------------------------------------------------------------------------
\* Properties
\* ------------------------------------------------------------------------

\* C1: at the end of every tick no wire holds more than N_CHANNELS packets
\* (packets whose parent is the wire).
C1_WireWithinChannels ==
    EndOfTick => \A l \in TheLines : Cardinality(OnLine(l)) <= N_CHANNELS

\* C2: at the end of a tick no packet is left on a wire with routing_delay 0:
\* a packet whose delay ran out on a wire was injected into the downstream
\* core or dropped in that tick.
C2_ExpiredLeavesWire ==
    EndOfTick => \A p \in PacketIds :
                    ~(packets[p].parent.kind = "line" /\ packets[p].routing_delay = 0)

\* C3: conservation.  The packets injected so far are those destroyed by
\* arrival, those destroyed by edge loss and those still live, each counted
\* once; a live packet in a core is held by its buffers, a packet on a wire or
\* destroyed is held by none.
C3_Conservation ==
    /\ Len(packets) = Cardinality(Arrived) + Len(console) + Cardinality(Live)
    /\ Cardinality(Range(console)) = Len(console)
    /\ Arrived \cap Range(console) = {}
    /\ Live \cap (Arrived \cup Range(console)) = {}
    /\ \A p \in PacketIds :
          Cardinality(Places(p)) = IF packets[p].parent.kind = "core" THEN 1 ELSE 0

\* a packet has arrived, another has been lost to the edge
C3_Witness ==
    \E p, q \in PacketIds : hist[p].fate = "arrived" /\ hist[q].fate = "lost"

\* C4: every packet held in the wait_buffer, send_buffer or packet_out_buffer
\* of a core has that core as parent.
C4_BufferedHasParent ==
    \A c \in TheCores : \A p \in Held(c) : packets[p].parent = CoreParent(c)

\* a packet that came over a wire waits in a core while another is staged
\* in a packet_out_buffer
C4_Witness ==
    /\ \E c \in TheCores : \E p \in Range(wait_buffer[c]) : hist[p].hops > 0
    /\ \E c \in TheCores, d \in Dirs : \E p \in PacketIds : p \in Range(packet_out_buffer[c][d])

\* C5: between operations a packet is in at most one place of the cores'
\* wait_buffer, send_buffer, packet_out_buffer and merge slots.
C5_AtMostOnePlace ==
    \A p \in PacketIds : Cardinality(Places(p)) <= 1

\* route has staged a packet that won an arbiter earlier, send_out has not run
C5_Witness ==
    \E c \in TheCores, d \in Dirs : \E p \in PacketIds :
        /\ p \in Range(packet_out_buffer[c][d])
        /\ hist[p].wins > 0
        /\ pc = "send_out"

\* C6: dimension order.  No step changes dy or dz of a packet whose dx is not
\* 0, nor dz of a packet whose dy is not 0.
C6_DimensionOrder ==
    [][\A p \in PacketIds :
          /\ packets[p].dx # 0 =>
                packets'[p].dy = packets[p].dy /\ packets'[p].dz = packets[p].dz
          /\ packets[p].dy # 0 => packets'[p].dz = packets[p].dz]_vars

\* a packet that had to move on all three axes has resolved all three
C6_Witness ==
    \E p \in PacketIds :
        /\ hist[p].disp0[1] # 0 /\ hist[p].disp0[2] # 0 /\ hist[p].disp0[3] # 0
        /\ packets[p].dx = 0 /\ packets[p].dy = 0 /\ packets[p].dz = 0

\* |dx| + |dy| + |dz| of the packet at birth
Distance0(p) == Abs(hist[p].disp0[1]) + Abs(hist[p].disp0[2]) + Abs(hist[p].disp0[3])

\* C7: a packet that is the only traffic and arrives at its destination is
\* destroyed no fewer than entry_delay + distance * (arbiter_delay + wire_latency)
\* ticks after its injection.
C7_LowerBound ==
    \A p \in PacketIds :
        (Len(packets) = 1 /\ hist[p].fate = "arrived") =>
            hist[p].died - hist[p].born >= CoreDelay + Distance0(p) * (ArbiterDelay + LineDelay)

\* a lone packet has crossed two wires and arrived
C7_Witness ==
    \E p \in PacketIds :
        Len(packets) = 1 /\ hist[p].fate = "arrived" /\ Distance0(p) = 2 /\ hist[p].hops = 2

\* C8: a packet put on a wire in tick e with routing_delay LineDelay hops into
\* the downstream core in tick e + LineDelay or e + LineDelay + 1.
C8_HopWindow ==
    \A p \in PacketIds :
        /\ packets[p].parent.kind = "line" =>
              \/ t < hist[p].entered + LineDelay + 1
              \/ t = hist[p].entered + LineDelay + 1 /\ pc \in {"workload", "wires"}
        /\ hist[p].hops > 0 =>
              /\ hist[p].hopped >= hist[p].drainedFrom + LineDelay
              /\ hist[p].hopped <= hist[p].drainedFrom + LineDelay + 1

\* C9 as stated: the first advance after the delay of a waiting packet reached
\* 0 in tick z is applied in tick z.
C9_SameTick ==
    \A p \in PacketIds :
        (hist[p].zeroAt >= 0 /\ hist[p].attempt >= hist[p].zeroAt) =>
            hist[p].attempt = hist[p].zeroAt

\* C9 (amended): a packet of the wait buffer whose routing_delay is decremented
\* to 0 by route() in tick z is advanced by the next route() of its core, in
\* tick z + 1: not in tick z and not later.
C9_NextTick ==
    \A p \in PacketIds :
        hist[p].zeroAt >= 0 =>
            IF hist[p].attempt >= hist[p].zeroAt
            THEN hist[p].attempt = hist[p].zeroAt + 1
            ELSE \/ t = hist[p].zeroAt
                 \/ /\ t = hist[p].zeroAt + 1
                    /\ \/ pc \in {"workload", "wires", "done"}
                       \/ pc = "route" /\ packets[p].parent.id \in Range(to_route)

\* a packet lost an arbitration after its delay ran out and tried again
C9_Witness ==
    \E p \in PacketIds :
        /\ hist[p].attempt = hist[p].zeroAt + 1
        /\ hist[p].losses > 0
        /\ hist[p].wins > 0

\* C10: a packet injected into a wire by send_out in tick e is drained in a
\* later tick; the wire step sees only what the send_out calls of earlier
\* ticks left, and no send_out runs before every route of the tick has run.
C10_Phased ==
    /\ \A p \in PacketIds : hist[p].hops > 0 => hist[p].drainedFrom < hist[p].hopped
    /\ pc \in {"workload", "wires"} =>
          \A p \in PacketIds : packets[p].parent.kind = "line" => hist[p].entered < t
    /\ pc = "send_out" => to_route = <<>>
    /\ pc = "route" => to_send = Range(to_visit)

\* a packet has been drained from a wire while another core still has to send
C10_Witness ==
    /\ \E p \in PacketIds : hist[p].hops > 0 /\ hist[p].hopped = t
    /\ pc = "send_out"
    /\ Cardinality(to_send) = 2

\* C11: the global delay counter never decreases: every step leaves
\* Packet.delays unchanged or increases it.
C11_DelaysMonotonic == [][delays' >= delays]_vars

\* a lost arbitration has been counted and the packet that lost it went on
\* to its destination
C11_Witness ==
    /\ delays = 1
    /\ \E p \in PacketIds : hist[p].losses = 1 /\ hist[p].fate = "arrived"

\* the run was started with the packets of batch
Ran(batch) ==
    /\ pc # "start"
    /\ Len(hist) = Len(batch)
    /\ \A i \in DOMAIN batch :
          hist[i].src = batch[i][1] /\ hist[i].disp0 = <<batch[i][2], batch[i][3], batch[i][4]>>

\* C12: edge loss.  The packet (dx=5, dy=-5) injected at core (15, 14) of the
\* 16 x 16 mesh is lost to the edge exactly once: one "was lost" line, the
\* packet destroyed with parent none, no live packet left when the run ends.
C12_EdgeLoss ==
    Ran(edge_loss) =>
        /\ Len(console) <= 1
        /\ pc = "done" =>
              /\ console = <<1>>
              /\ hist[1].fate = "lost"
              /\ packets[1].parent = NoParent
              /\ Live = {}

\* C13: two packets (dx=4, dy=-1) injected together at core (0, 0).  Their
\* first arbitration is in the same tick for the east arbiter; exactly one wins
\* it, the other loses and the delay counter is incremented; neither is lost;
\* both are destroyed at their destination within the 100 ticks.
C13_TwoEastbound ==
    Ran(two_eastbound) =>
        /\ console = <<>>
        /\ \A p \in PacketIds : hist[p].fate # "lost"
        /\ (\A p \in PacketIds : hist[p].first # "none") =>
              /\ hist[1].firstAt = hist[2].firstAt
              /\ hist[1].firstDir = EAST /\ hist[2].firstDir = EAST
              /\ {hist[1].first, hist[2].first} = {"won", "lost"}
              /\ delays >= 1
              /\ \A p \in PacketIds : hist[p].first = "lost" => hist[p].losses >= 1
        /\ pc = "done" =>
              \A p \in PacketIds :
                  /\ hist[p].first # "none"
                  /\ hist[p].fate = "arrived"
                  /\ hist[p].diedAt = CoreAt(1, 4, 0)
                  /\ hist[p].died < 100

\* the run of the two packets has ended, one of them lost its first arbitration
C13_Witness ==
    /\ Ran(two_eastbound)
    /\ pc = "done"
    /\ \E p \in PacketIds : hist[p].first = "lost" /\ hist[p].fate = "arrived"

\* C14: single long hop.  The lone packet (dx=4, dy=0) injected at core (0, 0)
\* makes exactly 4 hops, all over east wires, is destroyed at core (0, 4), is
\* never lost, and the delay counter is 0 when the run ends.
C14_SingleLongHop ==
    Ran(single_long_hop) =>
        /\ console = <<>>
        /\ hist[1].hops <= 4
        /\ pc = "done" =>
              /\ hist[1].hops = 4
              /\ hist[1].path = <<CoreAt(0, 1, 0), CoreAt(0, 2, 0), CoreAt(0, 3, 0),
                                  CoreAt(0, 4, 0)>>
              /\ hist[1].fate = "arrived"
              /\ hist[1].diedAt = CoreAt(0, 4, 0)
              /\ packets[1].parent = NoParent
              /\ delays = 0

\* the run of the lone eastbound packet has ended after its fourth hop
C14_Witness ==
    Ran(single_long_hop) /\ pc = "done" /\ hist[1].hops = 4 /\ hist[1].died >= 0

\* C15 as stated: the lone packet (dx=2, dy=-3) injected at core (5, 5) is
\* destroyed at core (8, 5).
C15_DestroyedAt_8_5 ==
    (Ran(corner_turn) /\ pc = "done") =>
        hist[1].fate = "arrived" /\ hist[1].diedAt = CoreAt(8, 5, 0)

\* C15 (amended): the lone packet (dx=2, dy=-3) injected at core (5, 5) is
\* destroyed at core (8, 7): two columns east, three rows south of its source.
C15_DestroyedAt_8_7 ==
    (Ran(corner_turn) /\ pc = "done") =>
        hist[1].fate = "arrived" /\ hist[1].diedAt = CoreAt(8, 7, 0)

\* the run of the corner-turn packet has ended; the packet turned south at
\* core (5, 7)
C15_Witness ==
    /\ Ran(corner_turn)
    /\ pc = "done"
    /\ hist[1].died >= 0
    /\ Len(hist[1].path) = 5
    /\ hist[1].path[2] = CoreAt(5, 7, 0)
    /\ hist[1].path[3] = CoreAt(6, 7, 0)

\* the sum of the delay counters of the two packets run individually
IndividualDelays == run_alone(contention_A).delays + run_alone(contention_B).delays

\* the cores packet p has been in
Visited(p) == {hist[p].src} \cup Range(hist[p].path)

\* C16 as stated: with A (dx=1, dy=-5) injected at (10, 9) and B (dx=0, dy=-5)
\* at (9, 10) in one run, the two contend at a core both pass through and the
\* final delay counter is strictly greater than the sum of the delay counters
\* of the two packets run individually.
C16_Contention ==
    (Ran(merge_contention) /\ pc = "done") =>
        /\ \E p \in PacketIds : hist[p].losses > 0
        /\ delays > IndividualDelays

\* C16 (amended): A and B both pass through core (10, 10) but never contend:
\* neither loses an arbitration, and the final delay counter is 0, equal to
\* the sum of the delay counters of the two packets run individually.
C16_NoContention ==
    /\ (Ran(merge_contention) /\ pc = "done") =>
          /\ CoreAt(10, 10, 0) \in Visited(1) \cap Visited(2)
          /\ \A p \in PacketIds : hist[p].losses = 0 /\ hist[p].fate = "arrived"
          /\ delays = 0
          /\ delays = IndividualDelays
    /\ \A b \in {contention_A, contention_B} :
          (Ran(<<b>>) /\ pc = "done") =>
              delays = run_alone(b).delays /\ packets = run_alone(b).pk

\* the run of A and B together has ended, both packets at their destinations
C16_Witness ==
    /\ Ran(merge_contention)
    /\ pc = "done"
    /\ hist[1].diedAt = CoreAt(15, 10, 0)
    /\ hist[2].diedAt = CoreAt(14, 10, 0)

\* the only packet of the router is packet q, on line l
OnlyOn(l, q) ==
    /\ fw.line = [k \in FWLines |-> IF k = l THEN q ELSE FWNone]
    /\ \A comp \in all_components : fw.backlog[comp] = <<>>

\* C19: the legacy ForwardWest router.  With one packet injected on the line
\* of the local source, simulate ends whatever the order in which next_config
\* runs the components, and it ends with the packet on the west output, dx
\* incremented by 1, when dx is not 0; on the south output when dx = 0 and
\* dy < 0; on the north output when dx = 0 and dy >= 0.
C19_ForwardWest ==
    /\ <>(fw.pc = "done")
    /\ [](fw.pc = "done" =>
            LET q == fw.injected
            IN  IF q.dx # 0
                THEN fw.printed = "west" /\ OnlyOn("adder.line_out", [q EXCEPT !.dx = @ + 1])
                ELSE IF q.dy < 0
                THEN fw.printed = "south" /\ OnlyOn("comparator_y.true_out", q)
                ELSE fw.printed = "north" /\ OnlyOn("comparator_y.false_out", q))

\* simulate has ended for a packet that still had to go west and south: it
\* is on the west output
C19_Witness ==
    /\ fw.pc = "done"
    /\ fw.injected.dx < 0
    /\ fw.injected.dy < 0
    /\ fw.printed = "west"

\* C17: in a constructed mesh, where core c has a neighbour in direction d
\* the out-wire of c in direction d is a wire, it is the in-wire of that
\* neighbour on the side facing c, and it is the out-wire of no other core;
\* where c has no neighbour in direction d its in- and out-wire are None.
C17_SharedWires ==
    pc = "start" =>
        \A c \in TheCores, d \in Dirs :
            IF HasNeighbour(topology_type, c, d)
            THEN LET l == lines_out(topology_type, c)[d]
                 IN  /\ l # None
                     /\ l = lines_in(topology_type, Neighbour(c, d))[Opposite(d)]
                     /\ \A c2 \in TheCores, d2 \in Dirs :
                           lines_out(topology_type, c2)[d2] = l => (c2 = c /\ d2 = d)
            ELSE /\ lines_in(topology_type, c)[d] = None
                 /\ lines_out(topology_type, c)[d] = None

\* a 3D mesh has been constructed: its first core has a neighbour below and
\* none above
C17_Witness ==
    /\ pc = "start"
    /\ topology_type = "3Dmesh"
    /\ HasNeighbour(topology_type, CoreAt(0, 0, 0), DOWN)
    /\ ~HasNeighbour(topology_type, CoreAt(0, 0, 0), UP)
    /\ lines_out(topology_type, CoreAt(0, 0, 0))[DOWN] # None

\* where random_firestorm addressed packet p: <<row, column, layer>>
Destination(p) ==
    <<CX(hist[p].src) - hist[p].disp0[2], CY(hist[p].src) + hist[p].disp0[1],
      CZ(hist[p].src) - hist[p].disp0[3]>>

\* C18: every packet of a random workload is addressed to a core of the grid
\* (source position plus displacement lies inside the grid on every axis), and
\* no packet of a random workload is lost to an edge.
C18_ValidAddress ==
    workload = "random" =>
        /\ console = <<>>
        /\ pc = "start" =>
              \A c \in TheCores : \A b \in FireDraws(topology_type, c) :
                  InGrid(topology_type, <<CX(c) - b[3], CY(c) + b[2], CZ(c) - b[4]>>)
        /\ \A p \in PacketIds :
              /\ InGrid(topology_type, Destination(p))
              /\ hist[p].fate # "lost"
              /\ hist[p].fate = "arrived" =>
                    hist[p].diedAt = CoreAt(Destination(p)[1], Destination(p)[2],
                                            Destination(p)[3])

\* a packet random_firestorm created in the second tick has crossed two
\* wires to the core it was addressed to
C18_Witness ==
    /\ workload = "random"
    /\ \E p \in PacketIds :
          hist[p].born = 1 /\ hist[p].fate = "arrived" /\ hist[p].hops = 2

\* C20: after construction every wire knows its termini: the component_in of
\* the out-wire of core c in direction d is c, its component_out is the
\* neighbour of c in direction d; for every wire of the 2D and the 3D mesh.
C20_Termini ==
    pc = "start" =>
        \A c \in TheCores, d \in Dirs :
            LET l == lines_out(topology_type, c)[d]
            IN  l # None =>
                    /\ component_in(topology_type, l) = c
                    /\ component_out(topology_type, l) = Neighbour(c, d)

\* C21: Line.inject places the packet in the first empty channel of the wire
\* and the channel stays occupied until dissassociate: every packet whose
\* parent is a wire is held by a channel of that wire, and a wire that holds
\* N_CHANNELS packets is not clear.
C21_InjectOccupies ==
    \A l \in TheLines :
        /\ \A p \in OnLine(l) : \E i \in 1 .. N_CHANNELS : channels[l][i] = p
        /\ Cardinality(OnLine(l)) >= N_CHANNELS => ~Line_is_clear(channels[l])

\* packets p and q made their last arbiter attempt in the same route() call
\* (same core, same tick) at the same merge block
SameContest(p, q) ==
    /\ p # q
    /\ hist[p].tryAt >= 0
    /\ hist[p].tryAt = hist[q].tryAt
    /\ hist[p].tryCore = hist[q].tryCore
    /\ hist[p].tryDir = hist[q].tryDir

\* C22: in one route() call at most one packet wins each merge arbiter of the
\* core, and all six merge slots of every core are empty when route() has
\* returned.
C22_OneWinnerPerArbiter ==
    /\ \A c \in TheCores, d \in Dirs : merges[c][d] = None
    /\ \A p, q \in PacketIds :
          SameContest(p, q) => ~(hist[p].tryWon /\ hist[q].tryWon)

\* two packets tried the same arbiter in one route() call: one won, one lost
C22_Witness ==
    \E p, q \in PacketIds :
        SameContest(p, q) /\ hist[p].tryWon /\ ~hist[q].tryWon

\* position of packet p in the sequence buf
IndexIn(buf, p) == CHOOSE i \in DOMAIN buf : buf[i] = p

\* the packets that lost an arbiter in the step
Losers == {q \in PacketIds : hist'[q].losses # hist[q].losses}

\* a packet whose last arbiter attempt was lost is due for its next attempt:
\* still in the tick of the loss, or in the next tick before the route() of
\* its core has run
RetryPending(q) ==
    \/ t = hist[q].tryAt
    \/ /\ t = hist[q].tryAt + 1
       /\ \/ pc \in {"workload", "wires", "done"}
          \/ pc = "route" /\ hist[q].tryCore \in Range(to_route)

\* C23: arbiter contention.  When two packets of a wait buffer contend for the
\* same merge arbiter in one route() call the first scanned wins; the loser
\* keeps its tag, stays in the wait buffer of the core with routing_delay 0,
\* the delay counter grows by exactly 1 for each loss, and the loser attempts
\* the same arbiter again in the next tick.
C23_Contention ==
    /\ [](\A q \in PacketIds :
            (hist[q].tryAt >= 0 /\ ~hist[q].tryWon) => RetryPending(q))
    /\ [][pc = "route" =>
            LET c == Head(to_route)
            IN  /\ delays' - delays = Cardinality(Losers)
                /\ \A q \in Losers :
                      /\ hist'[q].losses = hist[q].losses + 1
                      /\ packets'[q].directionality = packets[q].directionality
                      /\ packets'[q].routing_delay = 0
                      /\ packets'[q].parent = CoreParent(c)
                      /\ q \in Range(wait_buffer'[c])
                      /\ \E p \in Range(wait_buffer[c]) :
                            /\ IndexIn(wait_buffer[c], p) < IndexIn(wait_buffer[c], q)
                            /\ hist'[p].tryWon
                            /\ hist'[p].tryAt = t
                            /\ hist'[p].tryCore = c
                            /\ hist'[p].tryDir = hist'[q].tryDir
                /\ \A q \in PacketIds :
                      (hist'[q].tryAt = t /\ hist[q].tryAt >= 0 /\ ~hist[q].tryWon) =>
                          /\ hist[q].tryAt = t - 1
                          /\ hist'[q].tryCore = hist[q].tryCore
                          /\ hist'[q].tryDir = hist[q].tryDir]_vars

\* a packet lost its first arbiter attempt to another packet, tried the same
\* arbiter in the next tick and won it
C23_Witness ==
    \E p, q \in PacketIds :
        /\ hist[q].first = "lost"
        /\ hist[q].losses = 1
        /\ hist[q].tryWon
        /\ hist[q].tryAt = hist[q].firstAt + 1
        /\ hist[q].tryDir = hist[q].firstDir
        /\ hist[p].first = "won"
        /\ hist[p].firstAt = hist[q].firstAt
        /\ hist[p].firstDir = hist[q].firstDir

\* the axis of a direction tag: x for east/west, y for north/south, z for up/down
TagAxis(tag) ==
    CASE tag \in {"eastbound", "westbound"}   -> "x"
      [] tag \in {"northbound", "southbound"} -> "y"
      [] tag \in {"upbound", "downbound"}     -> "z"
      [] OTHER                                -> "none"

\* the axis of the wire a packet is on
LineAxis(l) ==
    CASE LineDir(l) = EAST  -> "x"
      [] LineDir(l) = SOUTH -> "y"
      [] LineDir(l) = DOWN  -> "z"

\* packet p has left a core it had entered over a wire, and is on a wire
Traversed(p) == packets[p].parent.kind = "line" /\ hist[p].cameAs # "source"

C25_InitialTag ==
    \A p \in PacketIds :
        (hist[p].hops = 0 /\ hist[p].advAt = -1) =>
            LET dx == hist[p].disp0[1]
                dy == hist[p].disp0[2]
                dz == hist[p].disp0[3]
            IN  packets[p].directionality =
                    IF dx > 0 THEN "eastbound"
                    ELSE IF dx < 0 THEN "westbound"
                    ELSE IF dy > 0 THEN "northbound"
                    ELSE IF dy < 0 THEN "southbound"
                    ELSE IF dz > 0 THEN "upbound"
                    ELSE IF dz < 0 THEN "downbound"
                    ELSE "self-exit"

\* C26: forward(p) chooses the direction d by the sign priority dx > dy > dz.
\* With dx = dy = dz = 0 the packet is destroyed; if lines_out[d] is None the
\* packet is lost (destroyed, parent none, reported); else if the out-wire and
\* packet_out_buffer[d] are both clear the packet is added to that slot and
\* None is returned; otherwise the packet is returned and nothing has changed.
C26_Forward ==
    [][(call.op = "forward" /\ call.ret = "pending") =>
        LET c == call.core
            p == call.packet
            q == packets[p]
            d == IF q.dx > 0 THEN EAST ELSE IF q.dx < 0 THEN WEST
                 ELSE IF q.dy > 0 THEN NORTH ELSE IF q.dy < 0 THEN SOUTH
                 ELSE IF q.dz > 0 THEN UP ELSE DOWN
            wire == lines_out(topology_type, c)[d]
            others == \A r \in PacketIds \ {p} : packets'[r] = packets[r]
        IN  IF q.dx = 0 /\ q.dy = 0 /\ q.dz = 0
            THEN /\ packets'[p] = [q EXCEPT !.parent = NoParent]
                 /\ call'.ret = "None"
                 /\ console' = console
                 /\ others
                 /\ UNCHANGED <<packet_out_buffer, send_buffer, channels, delays>>
            ELSE IF wire = None
            THEN /\ packets'[p] = [q EXCEPT !.parent = NoParent]
                 /\ call'.ret = "None"
                 /\ console' = Append(console, p)
                 /\ others
                 /\ UNCHANGED <<packet_out_buffer, send_buffer, channels, delays>>
            ELSE IF Line_is_clear(channels[wire]) /\ Buffer_is_clear(packet_out_buffer[c][d])
            THEN /\ call'.ret = "None"
                 /\ p \in Range(packet_out_buffer'[c][d])
                 /\ \A e \in Dirs \ {d} : packet_out_buffer'[c][e] = packet_out_buffer[c][e]
                 /\ \A c2 \in TheCores \ {c} : packet_out_buffer'[c2] = packet_out_buffer[c2]
                 /\ UNCHANGED <<packets, send_buffer, channels, delays, console>>
            ELSE /\ call'.ret = "packet"
                 /\ UNCHANGED <<packets, packet_out_buffer, send_buffer, channels,
                                delays, console>>]_vars

\* forward has returned the packet: the staging slot of its direction held
\* another packet
C26_Witness ==
    /\ call.op = "forward"
    /\ call.ret = "packet"
    /\ packets[call.packet].parent = CoreParent(call.core)
    /\ \E d \in Dirs : 2 \in Range(packet_out_buffer[call.core][d])

\* packet p won a merge arbiter in the step
WonNow(p) == hist'[p].tryAt = t /\ hist'[p].tryWon /\ hist[p].tryAt # t

\* C27: advance.  A packet that wins its arbiter gets routing_delay 6 and the
\* tag its displacement calls for: eastbound/westbound becomes east-exit/
\* west-exit if dx is not 0, else north if dy > 0, else south; a south or north
\* tag becomes south-exit/north-exit if dy is not 0, else up if dz > 0, down if
\* dz < 0, else self-exit; an up or down tag becomes up-exit/down-exit.  A
\* packet whose tag is an exit tag is returned as outbound at once, tag and
\* delay unchanged, and only exit-tagged packets are reported outbound.
C27_Advance ==
    [][pc = "route" =>
        LET c == Head(to_route)
        IN  \A p \in Range(wait_buffer[c]) :
                LET q == packets[p]
                    tag == q.directionality
                    exits == {"east-exit", "west-exit", "north-exit", "south-exit",
                              "up-exit", "down-exit", "self-exit"}
                    vertical == IF q.dz > 0 THEN "up"
                                ELSE IF q.dz < 0 THEN "down" ELSE "self-exit"
                    outbound == p \notin Range(wait_buffer'[c])
                IN  /\ WonNow(p) =>
                          /\ packets'[p].routing_delay = 6
                          /\ packets'[p].directionality =
                                CASE tag = "eastbound" ->
                                        IF q.dx # 0 THEN "east-exit"
                                        ELSE IF q.dy > 0 THEN "north" ELSE "south"
                                  [] tag = "westbound" ->
                                        IF q.dx # 0 THEN "west-exit"
                                        ELSE IF q.dy > 0 THEN "north" ELSE "south"
                                  [] tag \in {"southbound", "south"} ->
                                        IF q.dy # 0 THEN "south-exit" ELSE vertical
                                  [] tag \in {"northbound", "north"} ->
                                        IF q.dy # 0 THEN "north-exit" ELSE vertical
                                  [] tag \in {"upbound", "up"} -> "up-exit"
                                  [] tag \in {"downbound", "down"} -> "down-exit"
                          /\ ~outbound
                    /\ (q.routing_delay = 0 /\ tag \in exits) =>
                          /\ outbound
                          /\ packets'[p].directionality = tag
                          /\ packets'[p].routing_delay = q.routing_delay
                          /\ hist'[p].tryAt = hist[p].tryAt
                    /\ outbound => tag \in exits]_vars

\* a packet that came to its destination over a wire has won the arbiter of
\* its arrival axis and then the south arbiter, which tagged it self-exit
C27_Witness ==
    \E p \in PacketIds :
        /\ packets[p].directionality = "self-exit"
        /\ packets[p].routing_delay = 6
        /\ hist[p].tryWon
        /\ hist[p].tryDir = SOUTH
        /\ hist[p].wins = 2
        /\ hist[p].hops > 0

\* the cores that are the parent of at least one packet
CoresInUse == {c \in TheCores : \E p \in PacketIds : packets[p].parent = CoreParent(c)}

DuplicateFree(seq) == \A i, j \in DOMAIN seq : i # j => seq[i] # seq[j]

\* C28: in every tick to_visit is duplicate-free and holds exactly the cores
\* that are the parent of a packet after the wire step (the cores that got a
\* packet from a wire in this tick included); route() runs exactly once and
\* then send_out() exactly once on each of these cores and on no other.
C28_ToVisit ==
    /\ [](/\ DuplicateFree(to_visit)
          /\ Range(to_route) \subseteq Range(to_visit)
          /\ to_send \subseteq Range(to_visit)
          /\ pc = "route" => to_send = Range(to_visit)
          /\ pc = "send_out" => to_route = <<>>
          /\ \A p \in PacketIds : hist[p].scans <= 1
          /\ EndOfTick =>
                /\ to_route = <<>>
                /\ to_send = {}
                /\ \A p \in PacketIds :
                      (packets[p].parent.kind = "core" /\ hist[p].born < t) =>
                          hist[p].scanAt = t - 1
                /\ \A c \in TheCores, d \in Dirs : packet_out_buffer[c][d] = EmptySlots)
    /\ [][/\ pc = "wires" =>
                /\ DuplicateFree(to_visit')
                /\ Range(to_visit') = CoresInUse'
          /\ pc = "route" =>
                \A c \in TheCores \ {Head(to_route)} :
                    /\ wait_buffer'[c] = wait_buffer[c]
                    /\ packet_out_buffer'[c] = packet_out_buffer[c]
          /\ pc = "send_out" =>
                \E c \in to_send :
                    /\ to_send' = to_send \ {c}
                    /\ \A c2 \in TheCores \ {c} :
                          packet_out_buffer'[c2] = packet_out_buffer[c2]]_vars

\* the wire step has put two cores in to_visit, one of them because a packet
\* came into it from a wire in this tick
C28_Witness ==
    /\ pc = "route"
    /\ to_route = to_visit
    /\ Len(to_visit) = 2
    /\ \E p \in PacketIds :
          hist[p].hopped = t /\ packets[p].parent.kind = "core"
          /\ packets[p].parent.id \in Range(to_visit)

\* the orders random.shuffle can leave the list seq in
Shuffles(seq) ==
    {f \in [DOMAIN seq -> Range(seq)] : \A i, j \in DOMAIN seq : i # j => f[i] # f[j]}

\* C29: the state at the end of a tick does not depend on the order
\* random.shuffle gives to_visit for the send_out loop: every order of the
\* send_out calls leads from the state after the route loop to the same
\* packets, buffers, slots, wires and delay counter.
C29_ShuffleInvariant ==
    pc = "send_out" =>
        /\ to_send = Range(to_visit) =>
              \A perm \in Shuffles(to_visit) :
                  send_out_all(Cur, perm) = send_out_all(Cur, to_visit)
        /\ \A c1, c2 \in to_send :
              Core_send_out(Core_send_out(Cur, c1), c2)
                  = Core_send_out(Core_send_out(Cur, c2), c1)

\* the send_out loop is about to run on two cores, each with a packet staged
\* for one of its wires
C29_Witness ==
    /\ pc = "send_out"
    /\ to_send = Range(to_visit)
    /\ Len(to_visit) = 2
    /\ \A c \in to_send : \E d \in Dirs : packet_out_buffer[c][d] # EmptySlots

RECURSIVE LostContests(_)
\* the merge-arbiter contests lost by packets 1 .. n
LostContests(n) == IF n = 0 THEN 0 ELSE hist[n].losses + LostContests(n - 1)

\* C30: with N_CHANNELS = 1 forward never blocks: the send_buffer of every
\* core is empty in every state, every staging slot is empty at the end of a
\* tick, and the delay counter counts lost merge-arbiter contests only.
C30_NeverBlocks ==
    /\ \A c \in TheCores : send_buffer[c] = <<>>
    /\ EndOfTick => \A c \in TheCores, d \in Dirs : packet_out_buffer[c][d] = EmptySlots
    /\ delays = LostContests(Len(packets))

\* one arbiter contest has been lost, and both packets were put on the same
\* wire, where they are at the end of a tick
C30_Witness ==
    /\ EndOfTick
    /\ delays = 1
    /\ \E p, q \in PacketIds :
          /\ p # q
          /\ packets[p].parent.kind = "line"
          /\ packets[q].parent = packets[p].parent
          /\ hist[q].losses = 1

\* |dx| + |dy| + |dz| of a packet record
Remaining(q) == Abs(q.dx) + Abs(q.dy) + Abs(q.dz)

\* component b is component a moved no further than to 0, on the same side
Towards0(a, b) == (a >= 0 /\ b >= 0 /\ b <= a) \/ (a <= 0 /\ b <= 0 /\ b >= a)

\* C32: a wire hop into the downstream core moves exactly one displacement
\* component of the packet by 1 toward zero (|dx| + |dy| + |dz| decreases by
\* exactly 1, no component changes sign or overshoots 0); every other step
\* (Core.inject, route, advance, forward, send_out, Line.inject) leaves dx, dy
\* and dz of every packet unchanged.
C32_HopFrame ==
    [][\A p \in PacketIds :
          LET q == packets[p]
              r == packets'[p]
          IN  IF hist'[p].hops # hist[p].hops
              THEN /\ hist'[p].hops = hist[p].hops + 1
                   /\ Remaining(r) = Remaining(q) - 1
                   /\ Towards0(q.dx, r.dx) /\ Towards0(q.dy, r.dy) /\ Towards0(q.dz, r.dz)
                   /\ Cardinality({i \in 1 .. 3 :
                          <<q.dx, q.dy, q.dz>>[i] # <<r.dx, r.dy, r.dz>>[i]}) = 1
              ELSE r.dx = q.dx /\ r.dy = q.dy /\ r.dz = q.dz]_vars

\* a packet that had to go west and then along the y axis has made its hop
\* west: dx is 0, dy is what it was, and the packet waits in the next core
C32_Witness ==
    \E p \in PacketIds :
        /\ hist[p].hops = 1
        /\ hist[p].disp0[1] = -1
        /\ hist[p].disp0[2] # 0
        /\ packets[p].dx = 0
        /\ packets[p].dy = hist[p].disp0[2]
        /\ packets[p].parent.kind = "core"

\* ------------------------------------------------------------------------
\* C31
\* ------------------------------------------------------------------------
\* when packet p entered the core it is in: the tick, then the place of the
\* entry in the tick (the workload injects before the wires are drained), then
\* the place in the batch of the workload
EntryKey(p) ==
    IF hist[p].hops = 0 THEN <<hist[p].born, 0, p>> ELSE <<hist[p].hopped, 1, 0>>

\* p entered its core no later than q entered its core
EnteredBefore(p, q) ==
    LET a == EntryKey(p)
        b == EntryKey(q)
    IN  /\ p # q
        /\ \/ a[1] < b[1]
           \/ a[1] = b[1] /\ a[2] < b[2]
           \/ a[1] = b[1] /\ a[2] = b[2] /\ a[3] <= b[3]

\* packet p is in a core with routing_delay 0 and has an arbiter to win
Waiting(p) ==
    /\ p \in PacketIds
    /\ packets[p].parent.kind = "core"
    /\ packets[p].routing_delay = 0
    /\ ~Contains(packets[p].directionality, "exit")

\* packet p won its arbiter in the tick that has just ended
WonLastTick(p) ==
    p \in PacketIds /\ hist[p].tryWon /\ hist[p].tryAt = t - 1

\* C31: no starvation at a merge arbiter.  Every wait buffer holds its packets
\* in the order in which they entered the core; a packet that loses an
\* arbitration loses to a packet that stood before it in the wait buffer and
\* entered the core before it; a packet has lost fewer arbitrations in a row
\* than there are packets; and a packet that waits with routing_delay 0 while
\* the run has BusyPackets ticks left wins its arbiter, new packets arriving
\* at the core meanwhile.
C31_NoStarvation ==
    /\ [](\A c \in TheCores : \A i, j \in DOMAIN wait_buffer[c] :
              i < j => EnteredBefore(wait_buffer[c][i], wait_buffer[c][j]))
    /\ [](\A q \in PacketIds : hist[q].streak < Len(packets))
    /\ [][\A q \in Losers :
              LET c == hist'[q].tryCore
              IN  \E w \in PacketIds :
                     /\ WonNow(w)
                     /\ hist'[w].tryCore = c
                     /\ hist'[w].tryDir = hist'[q].tryDir
                     /\ w \in Range(wait_buffer[c]) /\ q \in Range(wait_buffer[c])
                     /\ IndexIn(wait_buffer[c], w) < IndexIn(wait_buffer[c], q)
                     /\ EnteredBefore(w, q)]_vars
    /\ \A p \in 1 .. BusyPackets :
          (Waiting(p) /\ t + BusyPackets <= timesteps) ~> WonLastTick(p)

\* a packet lost two arbitrations in a row and then won, and a packet that
\* was created after it has lost the same arbiter twice behind it
C31_Witness ==
    \E q, r \in PacketIds :
       /\ hist[q].losses = 2 /\ WonLastTick(q)
       /\ hist[r].born > hist[q].born
       /\ SameContest(q, r) /\ hist[r].streak = 2
====
